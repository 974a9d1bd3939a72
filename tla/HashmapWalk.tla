----------------------------- MODULE HashmapWalk -----------------------------
(***************************************************************************)
(* The airdrop file is one Hashmap of TON: a binary tree of cells, each    *)
(* with a label of key bits in one of three encodings, two references or a *)
(* value, and, once in memory, a read cursor.  This module is the tree,    *)
(* the functions of enumerate.go that read it (walk and its helpers), and  *)
(* what they have to return, stated without a tree.                        *)
(*                                                                         *)
(* A key is a sequence of bits: two constant bits, in the place of the     *)
(* constant start of addr_std, then the bits of the account.  A cell is    *)
(* named by the key bits on the way to it.  The value of a leaf is one     *)
(* token, Data, after its label.                                           *)
(***************************************************************************)
EXTENDS Integers, Sequences, SequencesExt, FiniteSetsExt

CONSTANT AccountBits   (* length of an account id in bits; 264 in the code *)

ASSUME WalkAssumption == AccountBits \in Nat \ {0}

Bit == {0, 1}

Data == 2

Accounts == [1..AccountBits -> Bit]

(* ton.AccountID{}, which IsZero is true of. *)
ZeroAccount == [i \in 1..AccountBits |-> 0]

AddrStd == <<1, 0>>

(* accountIDToBitString *)
Key(a) == AddrStd \o a

KeyLength == AccountBits + 2

(* bitsToAccountID fails on bits that are no addr_std. *)
IsKey(bits) == Len(bits) = KeyLength /\ IsPrefix(AddrStd, bits)

AccountOf(bits) == SubSeq(bits, 3, KeyLength)

(* The order of the keys, which is that of the leaves from left to right. *)
Precedes(j, k) ==
  \E i \in 1..KeyLength :
    /\ SubSeq(j, 1, i - 1) = SubSeq(k, 1, i - 1)
    /\ j[i] = 0 /\ k[i] = 1
-----------------------------------------------------------------------------
(***************************************************************************)
(* The tree of a set of keys, as the writer of the file makes it.          *)
(***************************************************************************)
Below(keys, p) == { k \in keys : IsPrefix(p, k) }

Forks(keys, p) == Below(keys, p \o <<0>>) # {} /\ Below(keys, p \o <<1>>) # {}

(* The longest common prefix of the keys below p, or all of the only key. *)
Stem(keys, p) ==
  CHOOSE s \in { SubSeq(k, 1, n) : k \in Below(keys, p), n \in Len(p)..KeyLength } :
    /\ Below(keys, s) = Below(keys, p)
    /\ Len(s) = KeyLength \/ Forks(keys, s)

CellNames(keys) ==
  {<<>>} \cup { p \in UNION { { SubSeq(k, 1, n) : n \in 1..KeyLength } : k \in keys } :
                  Forks(keys, Front(p)) }

(* Bits of a number that is at most n; no size is beyond that of a key. *)
Width(n) == CHOOSE w \in 0..KeyLength : 2^w > n /\ (w = 0 \/ 2^(w - 1) <= n)

UintBits(v, w) == [i \in 1..w |-> (v \div 2^(w - i)) % 2]

Repeat(b, n) == [i \in 1..n |-> b]

LabelBits(style, label, size) ==
  LET n == Len(label)
  IN CASE style = "hml_short" ->
            <<0>> \o Repeat(1, n) \o <<0>> \o label
       [] style = "hml_same" /\ n > 0 /\ \E b \in Bit : label = Repeat(b, n) ->
            <<1, 1, label[1]>> \o UintBits(n, Width(size))
       [] OTHER ->
            <<1, 0>> \o UintBits(n, Width(size)) \o label

Styles == {"hml_short", "hml_long", "hml_same"}

CellAt(keys, style, p) ==
  LET stem  == Stem(keys, p)
      label == SubSeq(stem, Len(p) + 1, Len(stem))
      bits  == LabelBits(style, label, KeyLength - Len(p))
  IN IF Len(stem) = KeyLength
     THEN [bits |-> bits \o <<Data>>, refs |-> <<>>]
     ELSE [bits |-> bits, refs |-> <<stem \o <<0>>, stem \o <<1>> >>]

TreeOf(keys, style) == [p \in CellNames(keys) |-> CellAt(keys, style, p)]
-----------------------------------------------------------------------------
(***************************************************************************)
(* Reading a cell.  A read that does not find what it wants is an error.   *)
(***************************************************************************)
BitsAt(bits, pos, n) ==
  /\ pos + n <= Len(bits)
  /\ \A i \in pos + 1..pos + n : bits[i] \in Bit

(* The number with the w bits that follow at pos. *)
Value(bits, pos, w) ==
  CHOOSE v \in 0..2^w - 1 : UintBits(v, w) = SubSeq(bits, pos + 1, pos + w)

LabelError == [ok |-> FALSE]

LabelRead(label, pos) == [ok |-> TRUE, label |-> label, pos |-> pos]

(* ln bits of the label follow at pos. *)
LabelFollows(bits, pos, ln) ==
  IF BitsAt(bits, pos, ln)
  THEN LabelRead(SubSeq(bits, pos + 1, pos + ln), pos + ln)
  ELSE LabelError

ReadShort(bits, pos) ==
  LET zeros == { i \in pos + 1..Len(bits) : bits[i] = 0 }
      ln    == Min(zeros) - pos - 1
  IN IF zeros # {} /\ BitsAt(bits, pos, ln)
     THEN LabelFollows(bits, pos + ln + 1, ln)
     ELSE LabelError

ReadLong(size, bits, pos) ==
  LET w == Width(size)
  IN IF BitsAt(bits, pos, w)
     THEN LabelFollows(bits, pos + w, Value(bits, pos, w))
     ELSE LabelError

(* The one bit of hml_same comes first, its number of repetitions second. *)
ReadSame(size, bits, pos) ==
  LET w == Width(size)
  IN IF BitsAt(bits, pos, w + 1)
     THEN LabelRead(Repeat(bits[pos + 1], Value(bits, pos + 1, w)), pos + w + 1)
     ELSE LabelError

readCommonPrefix(size, bits, pos) ==
  CASE ~BitsAt(bits, pos, 1) -> LabelError
    [] BitsAt(bits, pos, 1) /\ bits[pos + 1] = 0 -> ReadShort(bits, pos + 1)
    [] BitsAt(bits, pos, 2) /\ bits[pos + 1] = 1 /\ bits[pos + 2] = 0 ->
         ReadLong(size, bits, pos + 2)
    [] BitsAt(bits, pos, 2) /\ bits[pos + 1] = 1 /\ bits[pos + 2] = 1 ->
         ReadSame(size, bits, pos + 2)
    [] OTHER -> LabelError

compareBitStrings(key, prefix) ==
  LET differ == { i \in DOMAIN key \cap DOMAIN prefix : key[i] # prefix[i] }
  IN CASE differ # {} -> IF key[Min(differ)] = 0 THEN "less" ELSE "greater"
       [] differ = {} /\ Len(key) < Len(prefix) -> "error"
       [] OTHER -> "starts with"

addBit(a, bit) == Append(a, bit)

concatBitStrings(a, b) == a \o b
-----------------------------------------------------------------------------
(***************************************************************************)
(* walk.  The cursors of all cells go in and come out: "bit" is how many   *)
(* bits of a cell have been read, "ref" how many references.               *)
(***************************************************************************)
AtStart == [bit |-> 0, ref |-> 0]

Found(accounts, cursors) == [ok |-> TRUE, accounts |-> accounts, cursors |-> cursors]

WalkError(cursors) == [ok |-> FALSE, accounts |-> <<>>, cursors |-> cursors]

NextRef(tree, p, cursors) ==
  LET n == cursors[p].ref + 1
  IN IF n <= Len(tree[p].refs)
     THEN [ok |-> TRUE, cell |-> tree[p].refs[n],
           cursors |-> [cursors EXCEPT ![p].ref = n]]
     ELSE [ok |-> FALSE, cursors |-> cursors]

(* The value is read beyond its end. *)
LeafReadTooFar(tree, startKey, bits, p, cursors) ==
  IF compareBitStrings(startKey, bits) = "greater" THEN Found(<<>>, cursors)
  ELSE Found(<<AccountOf(bits)>>,
             [cursors EXCEPT ![p].bit = Len(tree[p].bits) + 1])

(* A leaf: skipped if it is before the start, or its value is read. *)
Leaf(tree, startKey, bits, p, cursors) ==
  LET compared == compareBitStrings(startKey, bits)
      pos      == cursors[p].bit
  IN CASE compared = "greater" -> Found(<<>>, cursors)
       [] compared \in {"less", "starts with"} /\ IsKey(bits)
            /\ pos < Len(tree[p].bits) /\ tree[p].bits[pos + 1] = Data ->
            Found(<<AccountOf(bits)>>, [cursors EXCEPT ![p].bit = pos + 1])
       [] OTHER -> WalkError(cursors)

(* The start is in the right half of the keys that start with bits. *)
SkipLeft(startKey, bits) ==
  /\ compareBitStrings(startKey, bits) = "starts with"
  /\ startKey[Len(bits) + 1] = 1

(* The right half is always walked. *)
NeverEnough(accounts, count) == FALSE

(* The right half is skipped once the left half has given enough. *)
Enough(accounts, count) == Len(accounts) = count

(* The arguments of one call of walk. *)
Cursors(tree) == [DOMAIN tree -> [bit : Nat, ref : Nat]]

Visits(tree) == [prefix : Seq(Bit), cell : DOMAIN tree, count : Int, cursors : Cursors(tree)]

Visit(prefix, p, count, cursors) ==
  [prefix |-> prefix, cell |-> p, count |-> count, cursors |-> cursors]

(* The two halves of a fork; w is walk. *)
Branches(w, tree, startKey, bits, p, count, cursors) ==
  LET first  == NextRef(tree, p, cursors)
      skip   == SkipLeft(startKey, bits)
      left   == IF skip THEN Found(<<>>, first.cursors)
                ELSE w[Visit(addBit(bits, 0), first.cell, count, first.cursors)]
      second == NextRef(tree, p, left.cursors)
      right  == w[Visit(addBit(bits, 1), second.cell,
                        count - Len(left.accounts), second.cursors)]
  IN CASE ~first.ok -> WalkError(cursors)
       [] first.ok /\ ~left.ok -> left
       [] first.ok /\ left.ok /\ ~skip /\ Enough(left.accounts, count) -> left
       [] OTHER ->
            IF ~second.ok THEN WalkError(left.cursors)
            ELSE IF ~right.ok THEN right
            ELSE Found(left.accounts \o right.accounts, right.cursors)

(* The body of walk; w is walk again. *)
WalkCell(w, tree, startKey, v) ==
  LET p    == v.cell
      size == Len(startKey) - Len(v.prefix)
      read == readCommonPrefix(size, tree[p].bits, v.cursors[p].bit)
      bits == concatBitStrings(v.prefix, read.label)
      cur  == [v.cursors EXCEPT ![p].bit = read.pos]
  IN CASE ~read.ok -> WalkError(v.cursors)
       [] read.ok /\ Len(read.label) = size -> Leaf(tree, startKey, bits, p, cur)
       [] OTHER ->
            CASE compareBitStrings(startKey, bits) = "error" -> WalkError(cur)
              [] compareBitStrings(startKey, bits) = "greater" -> Found(<<>>, cur)
              [] OTHER -> Branches(w, tree, startKey, bits, p, v.count, cur)

walk(tree, startKey) == LET w[v \in Visits(tree)] == WalkCell(w, tree, startKey, v) IN w
-----------------------------------------------------------------------------
(***************************************************************************)
(* What walk is for: the first "count" accounts, in the order of their     *)
(* keys, among those of the airdrop that are not before the start.         *)
(***************************************************************************)
NotBefore(airdrop, start) ==
  { a \in airdrop : ~Precedes(Key(a), Key(start)) }

Ordered(accounts) ==
  [i \in 1..Cardinality(accounts) |->
     CHOOSE a \in accounts :
       Cardinality({ b \in accounts : Precedes(Key(b), Key(a)) }) = i - 1]
=============================================================================
