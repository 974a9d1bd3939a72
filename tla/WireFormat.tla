----------------------------- MODULE WireFormat -----------------------------
(***************************************************************************)
(* What the generated code puts on the wire and accepts from it: the       *)
(* schemas WalletInfo, WalletList and Error, each with the JSON it is      *)
(* encoded as and the JSON it is decoded from.                             *)
(*                                                                         *)
(* A JSON value is a string, an object or an array; strings are opaque.    *)
(* An object is the sequence of its fields, for the decoders see them one  *)
(* by one: a field that comes again overwrites what it was, a field nobody *)
(* knows is skipped.  An optional field of a schema is a set with at most  *)
(* one element.                                                            *)
(***************************************************************************)
EXTENDS Naturals, Sequences

Str(x)  == [kind |-> "string", text |-> x]
Obj(fs) == [kind |-> "object", fields |-> fs]
Arr(es) == [kind |-> "array", elems |-> es]

Field(k, v) == [key |-> k, value |-> v]

(* The places of a key among the fields of an object. *)
Places(v, k) == { i \in DOMAIN v.fields : v.fields[i].key = k }

LastPlace(v, k) == CHOOSE i \in Places(v, k) : \A j \in Places(v, k) : j <= i

(* What is left of a key when all fields have been read. *)
Read(v, k) == v.fields[LastPlace(v, k)].value

(* A string that was not found is empty. *)
Text(v, k) == IF Places(v, k) = {} THEN "" ELSE Read(v, k).text

(* requiredBitSet: one bit for each key that was seen. *)
HasAll(v, keys) == \A k \in keys : Places(v, k) # {}

(* Whatever is found under one of the keys is a string. *)
StringsAt(v, keys) ==
  \A i \in DOMAIN v.fields : v.fields[i].key \in keys => v.fields[i].value.kind = "string"
-----------------------------------------------------------------------------
(* The schemas, over the strings of a set S. *)
CompressedInfos(S) == [amount : S, start_from : S, expired_at : S]

WalletInfos(S) ==
  [owner : S, jetton_wallet : S, custom_payload : S,
   state_init : { {} } \cup { {s} : s \in S },
   compressed_info : { {} } \cup { {c} : c \in CompressedInfos(S) }]

Items(S) == [owner : S, compressed_info : CompressedInfos(S)]

WalletLists(S) == [wallets : Seq(Items(S)), next_from : S]
-----------------------------------------------------------------------------
EncodeCompressedInfo(c) ==
  Obj(<< Field("amount", Str(c.amount)),
         Field("start_from", Str(c.start_from)),
         Field("expired_at", Str(c.expired_at)) >>)

CompressedKeys == {"amount", "start_from", "expired_at"}

AcceptsCompressedInfo(v) ==
  /\ v.kind = "object"
  /\ StringsAt(v, CompressedKeys)
  /\ HasAll(v, CompressedKeys)

DecodeCompressedInfo(v) ==
  [amount     |-> Text(v, "amount"),
   start_from |-> Text(v, "start_from"),
   expired_at |-> Text(v, "expired_at")]

(* An optional string is written if it is set ... *)
EncodeOptString(k, s) == IF s = {} THEN <<>> ELSE << Field(k, Str(CHOOSE x \in s : TRUE)) >>

EncodeOptCompressedInfo(k, c) ==
  IF c = {} THEN <<>> ELSE << Field(k, EncodeCompressedInfo(CHOOSE x \in c : TRUE)) >>

(* ... and set if it is read. *)
DecodeOptString(v, k) == IF Places(v, k) = {} THEN {} ELSE { Read(v, k).text }

DecodeOptCompressedInfo(v, k) ==
  IF Places(v, k) = {} THEN {} ELSE { DecodeCompressedInfo(Read(v, k)) }

EncodeWalletInfo(w) ==
  Obj(<< Field("owner", Str(w.owner)),
         Field("jetton_wallet", Str(w.jetton_wallet)),
         Field("custom_payload", Str(w.custom_payload)) >>
      \o EncodeOptString("state_init", w.state_init)
      \o EncodeOptCompressedInfo("compressed_info", w.compressed_info))

(* The mask 0b011 in its place. *)
WalletInfoRequiredTwo == {"owner", "jetton_wallet"}

(* The mask 0b111: state_init and compressed_info may be missing. *)
WalletInfoRequired == {"owner", "jetton_wallet", "custom_payload"}

AcceptsWalletInfo(v) ==
  /\ v.kind = "object"
  /\ StringsAt(v, WalletInfoRequired \cup {"state_init"})
  /\ \A i \in Places(v, "compressed_info") : AcceptsCompressedInfo(v.fields[i].value)
  /\ HasAll(v, WalletInfoRequired)

DecodeWalletInfo(v) ==
  [owner           |-> Text(v, "owner"),
   jetton_wallet   |-> Text(v, "jetton_wallet"),
   custom_payload  |-> Text(v, "custom_payload"),
   state_init      |-> DecodeOptString(v, "state_init"),
   compressed_info |-> DecodeOptCompressedInfo(v, "compressed_info")]
-----------------------------------------------------------------------------
(* The generated code has the compressed_info of an item a second time. *)
EncodeItemInfo(c) == EncodeCompressedInfo(c)

AcceptsItemInfo(v) == AcceptsCompressedInfo(v)

EncodeItem(w) ==
  Obj(<< Field("owner", Str(w.owner)),
         Field("compressed_info", EncodeItemInfo(w.compressed_info)) >>)

AcceptsItem(v) ==
  /\ v.kind = "object"
  /\ StringsAt(v, {"owner"})
  /\ \A i \in Places(v, "compressed_info") : AcceptsItemInfo(v.fields[i].value)
  /\ HasAll(v, {"owner", "compressed_info"})

DecodeItem(v) ==
  [owner           |-> Text(v, "owner"),
   compressed_info |-> DecodeCompressedInfo(Read(v, "compressed_info"))]

EncodeWalletList(l) ==
  Obj(<< Field("wallets", Arr([i \in 1..Len(l.wallets) |-> EncodeItem(l.wallets[i])])),
         Field("next_from", Str(l.next_from)) >>)

AcceptsItems(v) ==
  /\ v.kind = "array"
  /\ \A i \in DOMAIN v.elems : AcceptsItem(v.elems[i])

AcceptsWalletList(v) ==
  /\ v.kind = "object"
  /\ StringsAt(v, {"next_from"})
  /\ \A i \in Places(v, "wallets") : AcceptsItems(v.fields[i].value)
  /\ HasAll(v, {"wallets", "next_from"})

DecodeWalletList(v) ==
  LET es == Read(v, "wallets").elems
  IN [wallets   |-> [i \in 1..Len(es) |-> DecodeItem(es[i])],
      next_from |-> Text(v, "next_from")]
-----------------------------------------------------------------------------
EncodeError(e) == Obj(<< Field("error", Str(e)) >>)

DecodeError(v) == Text(v, "error")

AcceptsError(v) ==
  /\ v.kind = "object"
  /\ StringsAt(v, {"error"})
  /\ HasAll(v, {"error"})
=============================================================================
