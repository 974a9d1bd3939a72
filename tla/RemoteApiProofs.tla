--------------------------- MODULE RemoteApiProofs ---------------------------
(***************************************************************************)
(* Proofs about RemoteApi, for every number of callers, connections and    *)
(* accounts: no caller is given another caller's answer, and what a caller *)
(* is told is true, so that the client implements ClaimApi.                *)
(***************************************************************************)
EXTENDS RemoteApi, ApiServerProofs, WellFoundedInduction
-----------------------------------------------------------------------------
(***************************************************************************)
(* What Encode writes of a value of a schema Decode accepts, and returns the*)
(* same value, for all strings.                                            *)
(***************************************************************************)
(* Exactly one field has the key k, and its value is x. *)
Only(v, k, x) == \E i \in Nat : Places(v, k) = {i} /\ v.fields[i].value = x

(* What is read of such a key is the value of that field. *)
LEMMA ReadOnly ==
  ASSUME NEW v, NEW k, NEW x, Only(v, k, x)
  PROVE  Read(v, k) = x /\ Places(v, k) # {}
<1>1. PICK i \in Nat : Places(v, k) = {i} /\ v.fields[i].value = x
  BY DEF Only
<1>2. LastPlace(v, k) = i
  BY <1>1 DEF LastPlace
<1> QED
  BY <1>1, <1>2 DEF Read

(* The same for a string. *)
LEMMA TextOnly ==
  ASSUME NEW v, NEW k, NEW x, Only(v, k, Str(x))
  PROVE  Text(v, k) = x
<1>1. Read(v, k) = Str(x) /\ Places(v, k) # {}
  BY ReadOnly
<1>2. Str(x).text = x
  BY DEF Str
<1> QED
  BY <1>1, <1>2, Zenon DEF Text

(* A fourth and a fifth field behind the first ones. *)
LEMMA Fourth ==
  ASSUME NEW a, NEW b, NEW c, NEW d
  PROVE  <<a, b, c>> \o <<d>> = <<a, b, c, d>>
<1> DEFINE s == <<a, b, c>> \o <<d>>
           t == <<a, b, c, d>>
           S == {a, b, c, d}
<1>1. s \in Seq(S) /\ Len(s) = 4 /\ s[1] = a /\ s[2] = b /\ s[3] = c /\ s[4] = d
  OBVIOUS
<1>2. t \in Seq(S) /\ Len(t) = 4 /\ t[1] = a /\ t[2] = b /\ t[3] = c /\ t[4] = d
  OBVIOUS
<1> HIDE DEF s, t
<1>3. s = t
  BY <1>1, <1>2
<1> QED
  BY <1>3 DEF s, t

(* ... and the fifth. *)
LEMMA Fifth ==
  ASSUME NEW a, NEW b, NEW c, NEW d, NEW e
  PROVE  <<a, b, c, d>> \o <<e>> = <<a, b, c, d, e>>
<1> DEFINE s == <<a, b, c, d>> \o <<e>>
           t == <<a, b, c, d, e>>
           S == {a, b, c, d, e}
<1>1. /\ s \in Seq(S) /\ Len(s) = 5
      /\ s[1] = a /\ s[2] = b /\ s[3] = c /\ s[4] = d /\ s[5] = e
  OBVIOUS
<1>2. /\ t \in Seq(S) /\ Len(t) = 5
      /\ t[1] = a /\ t[2] = b /\ t[3] = c /\ t[4] = d /\ t[5] = e
  OBVIOUS
<1> HIDE DEF s, t
<1>3. s = t
  BY <1>1, <1>2
<1> QED
  BY <1>3 DEF s, t

(* Nothing behind three or four fields. *)
LEMMA NothingBehind ==
  ASSUME NEW a, NEW b, NEW c, NEW d
  PROVE  /\ <<a, b, c>> \o <<>> = <<a, b, c>>
         /\ <<a, b, c, d>> \o <<>> = <<a, b, c, d>>
  OBVIOUS

(* The three strings of a compressed info. *)
LEMMA CompressedInfoRoundTrip ==
  ASSUME NEW S, NEW c \in CompressedInfos(S)
  PROVE  /\ AcceptsCompressedInfo(EncodeCompressedInfo(c))
         /\ DecodeCompressedInfo(EncodeCompressedInfo(c)) = c
<1> DEFINE v == EncodeCompressedInfo(c)
<1>1. /\ v.kind = "object" /\ DOMAIN v.fields = {1, 2, 3}
      /\ v.fields[1] = Field("amount", Str(c.amount))
      /\ v.fields[2] = Field("start_from", Str(c.start_from))
      /\ v.fields[3] = Field("expired_at", Str(c.expired_at))
  BY DEF EncodeCompressedInfo, Obj
<1> HIDE DEF v
<1>2. /\ v.fields[1].key = "amount" /\ v.fields[1].value = Str(c.amount)
      /\ v.fields[2].key = "start_from" /\ v.fields[2].value = Str(c.start_from)
      /\ v.fields[3].key = "expired_at" /\ v.fields[3].value = Str(c.expired_at)
  BY <1>1 DEF Field
<1>3. /\ Places(v, "amount") = {1} /\ Places(v, "start_from") = {2}
      /\ Places(v, "expired_at") = {3}
  BY <1>1, <1>2 DEF Places
<1>4. /\ Text(v, "amount") = c.amount /\ Text(v, "start_from") = c.start_from
      /\ Text(v, "expired_at") = c.expired_at
  <2>1. /\ Only(v, "amount", Str(c.amount)) /\ Only(v, "start_from", Str(c.start_from))
        /\ Only(v, "expired_at", Str(c.expired_at))
    BY <1>2, <1>3 DEF Only
  <2> QED
    BY <2>1, TextOnly, Zenon
<1>5. AcceptsCompressedInfo(v)
  BY <1>1, <1>2, <1>3 DEF AcceptsCompressedInfo, StringsAt, HasAll, CompressedKeys, Str
<1>6. DecodeCompressedInfo(v) = c
  <2>1. c = [amount |-> c.amount, start_from |-> c.start_from, expired_at |-> c.expired_at]
    BY DEF CompressedInfos
  <2> QED
    BY <1>4, <2>1 DEF DecodeCompressedInfo
<1> QED
  BY <1>5, <1>6 DEF v

(* The fields of a WalletInfo are the three required ones, and after them  *)
(* the optional ones that are set.                                         *)
LEMMA WalletInfoFields ==
  ASSUME NEW w, NEW x, NEW y,
         NEW fs, fs = EncodeWalletInfo(w).fields,
         w.state_init \in { {}, {x} }, w.compressed_info \in { {}, {y} }
  PROVE  LET g == Field("state_init", Str(x))
             h == Field("compressed_info", EncodeCompressedInfo(y))
             o == Field("owner", Str(w.owner))
             j == Field("jetton_wallet", Str(w.jetton_wallet))
             p == Field("custom_payload", Str(w.custom_payload))
         IN /\ w.state_init = {} /\ w.compressed_info = {} => fs = <<o, j, p>>
            /\ w.state_init = {} /\ w.compressed_info # {} => fs = <<o, j, p, h>>
            /\ w.state_init # {} /\ w.compressed_info = {} => fs = <<o, j, p, g>>
            /\ w.state_init # {} /\ w.compressed_info # {} => fs = <<o, j, p, g, h>>
<1> DEFINE g == Field("state_init", Str(x))
           h == Field("compressed_info", EncodeCompressedInfo(y))
           o == Field("owner", Str(w.owner))
           j == Field("jetton_wallet", Str(w.jetton_wallet))
           p == Field("custom_payload", Str(w.custom_payload))
           G == EncodeOptString("state_init", w.state_init)
           H == EncodeOptCompressedInfo("compressed_info", w.compressed_info)
<1>1. fs = <<o, j, p>> \o G \o H
  BY DEF EncodeWalletInfo, Obj
<1>2. /\ w.state_init = {} => G = <<>>
      /\ w.state_init # {} => G = <<g>>
  BY DEF EncodeOptString
<1>3. /\ w.compressed_info = {} => H = <<>>
      /\ w.compressed_info # {} => H = <<h>>
  BY DEF EncodeOptCompressedInfo
<1> HIDE DEF g, h, o, j, p, G, H
<1>4. /\ <<o, j, p>> \o <<>> = <<o, j, p>>
      /\ <<o, j, p, g>> \o <<>> = <<o, j, p, g>>
  BY NothingBehind
<1>5. <<o, j, p>> \o <<h>> = <<o, j, p, h>>
  BY Fourth
<1>6. <<o, j, p>> \o <<g>> = <<o, j, p, g>>
  BY Fourth
<1>7. <<o, j, p, g>> \o <<h>> = <<o, j, p, g, h>>
  BY Fifth
<1>8. CASE w.state_init = {}
  <2>1. fs = <<o, j, p>> \o H
    BY <1>1, <1>2, <1>4, <1>8, Zenon
  <2>2. /\ w.compressed_info = {} => fs = <<o, j, p>>
        /\ w.compressed_info # {} => fs = <<o, j, p, h>>
    BY <1>3, <1>4, <1>5, <2>1, Zenon
  <2> QED
    BY <1>8, <2>2 DEF g, h, o, j, p
<1>9. CASE w.state_init # {}
  <2>1. fs = <<o, j, p, g>> \o H
    BY <1>1, <1>2, <1>6, <1>9, Zenon
  <2>2. /\ w.compressed_info = {} => fs = <<o, j, p, g>>
        /\ w.compressed_info # {} => fs = <<o, j, p, g, h>>
    BY <1>3, <1>4, <1>7, <2>1, Zenon
  <2> QED
    BY <1>9, <2>2 DEF g, h, o, j, p
<1> QED
  BY <1>8, <1>9

(* What the decoder has to find in order to return w. *)
Written(v, w) ==
  /\ v.kind = "object"
  /\ StringsAt(v, WalletInfoRequired \cup {"state_init"})
  /\ Only(v, "owner", Str(w.owner))
  /\ Only(v, "jetton_wallet", Str(w.jetton_wallet))
  /\ Only(v, "custom_payload", Str(w.custom_payload))
  /\ \/ w.state_init = {} /\ Places(v, "state_init") = {}
     \/ \E x : w.state_init = {x} /\ Only(v, "state_init", Str(x))
  /\ \/ w.compressed_info = {} /\ Places(v, "compressed_info") = {}
     \/ \E y : /\ w.compressed_info = {y}
              /\ Only(v, "compressed_info", EncodeCompressedInfo(y))

(* Four fields or five, the optional ones where they come. *)
LEMMA WalletInfoWritten ==
  ASSUME NEW S, NEW w \in WalletInfos(S)
  PROVE  Written(EncodeWalletInfo(w), w)
<1> DEFINE v == EncodeWalletInfo(w)
<1>1. PICK x : w.state_init \in { {}, {x} }
  BY DEF WalletInfos
<1>2. PICK y : w.compressed_info \in { {}, {y} }
  BY DEF WalletInfos
<1> DEFINE g == Field("state_init", Str(x))
           h == Field("compressed_info", EncodeCompressedInfo(y))
           o == Field("owner", Str(w.owner))
           j == Field("jetton_wallet", Str(w.jetton_wallet))
           p == Field("custom_payload", Str(w.custom_payload))
<1>3. /\ w.state_init = {} /\ w.compressed_info = {} => v.fields = <<o, j, p>>
      /\ w.state_init = {} /\ w.compressed_info # {} => v.fields = <<o, j, p, h>>
      /\ w.state_init # {} /\ w.compressed_info = {} => v.fields = <<o, j, p, g>>
      /\ w.state_init # {} /\ w.compressed_info # {} => v.fields = <<o, j, p, g, h>>
  BY <1>1, <1>2, WalletInfoFields
<1>4. v.kind = "object"
  BY DEF EncodeWalletInfo, Obj
<1>5. /\ o.key = "owner" /\ o.value = Str(w.owner)
      /\ j.key = "jetton_wallet" /\ j.value = Str(w.jetton_wallet)
      /\ p.key = "custom_payload" /\ p.value = Str(w.custom_payload)
      /\ g.key = "state_init" /\ g.value = Str(x)
      /\ h.key = "compressed_info" /\ h.value = EncodeCompressedInfo(y)
  BY DEF Field
<1>6. \A z : Str(z).kind = "string"
  BY DEF Str
<1> SUFFICES Written(v, w)
  OBVIOUS
<1> HIDE DEF v, g, h, o, j, p
<1>7. CASE w.state_init = {} /\ w.compressed_info = {}
  <2>1. v.fields = <<o, j, p>> /\ DOMAIN v.fields = {1, 2, 3}
    BY <1>3, <1>7
  <2>2. v.fields[1] = o /\ v.fields[2] = j /\ v.fields[3] = p
    BY <2>1
  <2>3. /\ Places(v, "owner") = {1} /\ Places(v, "jetton_wallet") = {2}
        /\ Places(v, "custom_payload") = {3} /\ Places(v, "state_init") = {}
        /\ Places(v, "compressed_info") = {}
    BY <1>5, <2>1, <2>2 DEF Places
  <2>4. StringsAt(v, WalletInfoRequired \cup {"state_init"})
    BY <1>5, <1>6, <2>1, <2>2 DEF StringsAt
  <2>5. /\ Only(v, "owner", o.value) /\ Only(v, "jetton_wallet", j.value)
        /\ Only(v, "custom_payload", p.value)
    BY <2>2, <2>3 DEF Only
  <2> QED
    BY <1>4, <1>5, <1>7, <2>3, <2>4, <2>5 DEF Written
<1>8. CASE w.state_init = {} /\ w.compressed_info # {}
  <2>1. v.fields = <<o, j, p, h>> /\ DOMAIN v.fields = {1, 2, 3, 4}
    BY <1>3, <1>8
  <2>2. v.fields[1] = o /\ v.fields[2] = j /\ v.fields[3] = p /\ v.fields[4] = h
    BY <2>1
  <2>3. /\ Places(v, "owner") = {1} /\ Places(v, "jetton_wallet") = {2}
        /\ Places(v, "custom_payload") = {3} /\ Places(v, "state_init") = {}
        /\ Places(v, "compressed_info") = {4}
    BY <1>5, <2>1, <2>2 DEF Places
  <2>4. StringsAt(v, WalletInfoRequired \cup {"state_init"})
    BY <1>5, <1>6, <2>1, <2>2 DEF StringsAt, WalletInfoRequired
  <2>5. /\ Only(v, "owner", o.value) /\ Only(v, "jetton_wallet", j.value)
        /\ Only(v, "custom_payload", p.value)
        /\ Only(v, "compressed_info", h.value)
    BY <2>2, <2>3 DEF Only
  <2> QED
    BY <1>2, <1>4, <1>5, <1>8, <2>3, <2>4, <2>5 DEF Written
<1>9. CASE w.state_init # {} /\ w.compressed_info = {}
  <2>1. v.fields = <<o, j, p, g>> /\ DOMAIN v.fields = {1, 2, 3, 4}
    BY <1>3, <1>9
  <2>2. v.fields[1] = o /\ v.fields[2] = j /\ v.fields[3] = p /\ v.fields[4] = g
    BY <2>1
  <2>3. /\ Places(v, "owner") = {1} /\ Places(v, "jetton_wallet") = {2}
        /\ Places(v, "custom_payload") = {3} /\ Places(v, "state_init") = {4}
        /\ Places(v, "compressed_info") = {}
    BY <1>5, <2>1, <2>2 DEF Places
  <2>4. StringsAt(v, WalletInfoRequired \cup {"state_init"})
    BY <1>5, <1>6, <2>1, <2>2 DEF StringsAt
  <2>5. /\ Only(v, "owner", o.value) /\ Only(v, "jetton_wallet", j.value)
        /\ Only(v, "custom_payload", p.value)
        /\ Only(v, "state_init", g.value)
    BY <2>2, <2>3 DEF Only
  <2> QED
    BY <1>1, <1>4, <1>5, <1>9, <2>3, <2>4, <2>5 DEF Written
<1>10. CASE w.state_init # {} /\ w.compressed_info # {}
  <2>1. v.fields = <<o, j, p, g, h>> /\ DOMAIN v.fields = {1, 2, 3, 4, 5}
    BY <1>3, <1>10
  <2>2. /\ v.fields[1] = o /\ v.fields[2] = j /\ v.fields[3] = p /\ v.fields[4] = g
        /\ v.fields[5] = h
    BY <2>1
  <2>3. /\ Places(v, "owner") = {1} /\ Places(v, "jetton_wallet") = {2}
        /\ Places(v, "custom_payload") = {3} /\ Places(v, "state_init") = {4}
        /\ Places(v, "compressed_info") = {5}
    BY <1>5, <2>1, <2>2 DEF Places
  <2>4. StringsAt(v, WalletInfoRequired \cup {"state_init"})
    BY <1>5, <1>6, <2>1, <2>2 DEF StringsAt, WalletInfoRequired
  <2>5. /\ Only(v, "owner", o.value) /\ Only(v, "jetton_wallet", j.value)
        /\ Only(v, "custom_payload", p.value)
        /\ Only(v, "state_init", g.value)
        /\ Only(v, "compressed_info", h.value)
    BY <2>2, <2>3 DEF Only
  <2> QED
    BY <1>1, <1>2, <1>4, <1>5, <1>10, <2>3, <2>4, <2>5 DEF Written
<1> QED
  BY <1>7, <1>8, <1>9, <1>10

(***************************************************************************)
(* The JSON that is written of a wallet is accepted, and is read as the    *)
(* same wallet: which of the optional fields are set is not confused with  *)
(* what they hold.                                                         *)
(***************************************************************************)
THEOREM WalletInfoRoundTrip ==
  ASSUME NEW S, NEW w \in WalletInfos(S)
  PROVE  /\ AcceptsWalletInfo(EncodeWalletInfo(w))
         /\ DecodeWalletInfo(EncodeWalletInfo(w)) = w
<1> DEFINE v == EncodeWalletInfo(w)
<1>1. Written(v, w)
  BY WalletInfoWritten
<1> HIDE DEF v
<1>2. /\ Text(v, "owner") = w.owner /\ Text(v, "jetton_wallet") = w.jetton_wallet
      /\ Text(v, "custom_payload") = w.custom_payload
  BY <1>1, TextOnly, Zenon DEF Written
<1>3. DecodeOptString(v, "state_init") = w.state_init
  <2>1. CASE w.state_init = {} /\ Places(v, "state_init") = {}
    BY <2>1 DEF DecodeOptString
  <2>2. ASSUME NEW x, w.state_init = {x}, Only(v, "state_init", Str(x))
        PROVE  DecodeOptString(v, "state_init") = w.state_init
    <3>1. Read(v, "state_init") = Str(x) /\ Places(v, "state_init") # {}
      BY <2>2, ReadOnly, Zenon
    <3>2. Read(v, "state_init").text = x
      BY <3>1 DEF Str
    <3> QED
      BY <2>2, <3>1, <3>2 DEF DecodeOptString
  <2> QED
    BY <1>1, <2>1, <2>2, Zenon DEF Written
<1>4. /\ DecodeOptCompressedInfo(v, "compressed_info") = w.compressed_info
      /\ \A i \in Places(v, "compressed_info") : AcceptsCompressedInfo(v.fields[i].value)
  <2>1. CASE w.compressed_info = {} /\ Places(v, "compressed_info") = {}
    BY <2>1 DEF DecodeOptCompressedInfo
  <2>2. ASSUME NEW y, w.compressed_info = {y},
               Only(v, "compressed_info", EncodeCompressedInfo(y))
        PROVE  /\ DecodeOptCompressedInfo(v, "compressed_info") = w.compressed_info
               /\ \A j \in Places(v, "compressed_info") : AcceptsCompressedInfo(v.fields[j].value)
    <3>1. /\ Read(v, "compressed_info") = EncodeCompressedInfo(y)
          /\ Places(v, "compressed_info") # {}
      BY <2>2, ReadOnly, Zenon
    <3>2. y \in CompressedInfos(S)
      BY <2>2 DEF WalletInfos
    <3>3. /\ AcceptsCompressedInfo(EncodeCompressedInfo(y))
          /\ DecodeCompressedInfo(EncodeCompressedInfo(y)) = y
      BY <3>2, CompressedInfoRoundTrip, Zenon
    <3>4. \A j \in Places(v, "compressed_info") : v.fields[j].value = EncodeCompressedInfo(y)
      BY <2>2 DEF Only
    <3> QED
      BY <2>2, <3>1, <3>3, <3>4 DEF DecodeOptCompressedInfo
  <2> QED
    BY <1>1, <2>1, <2>2, Zenon DEF Written
<1>5. HasAll(v, WalletInfoRequired)
  BY <1>1, ReadOnly DEF Written, HasAll, WalletInfoRequired
<1>6. w = [owner |-> w.owner, jetton_wallet |-> w.jetton_wallet,
           custom_payload |-> w.custom_payload, state_init |-> w.state_init,
           compressed_info |-> w.compressed_info]
  BY DEF WalletInfos
<1>7. DecodeWalletInfo(v) = w
  BY <1>2, <1>3, <1>4, <1>6 DEF DecodeWalletInfo
<1>8. AcceptsWalletInfo(v)
  BY <1>1, <1>4, <1>5 DEF Written, AcceptsWalletInfo
<1> QED
  BY <1>7, <1>8 DEF v
-----------------------------------------------------------------------------
(* An item of the list: its owner and its compressed info, both required.  *)
LEMMA ItemRoundTrip ==
  ASSUME NEW S, NEW w \in Items(S)
  PROVE  /\ AcceptsItem(EncodeItem(w))
         /\ DecodeItem(EncodeItem(w)) = w
<1> DEFINE v == EncodeItem(w)
           h == EncodeItemInfo(w.compressed_info)
<1>1. /\ v.kind = "object" /\ DOMAIN v.fields = {1, 2}
      /\ v.fields[1] = Field("owner", Str(w.owner))
      /\ v.fields[2] = Field("compressed_info", h)
  BY DEF EncodeItem, Obj
<1>2. /\ AcceptsItemInfo(h) /\ DecodeCompressedInfo(h) = w.compressed_info
  BY CompressedInfoRoundTrip DEF Items, EncodeItemInfo, AcceptsItemInfo
<1> HIDE DEF v, h
<1>3. /\ v.fields[1].key = "owner" /\ v.fields[1].value = Str(w.owner)
      /\ v.fields[2].key = "compressed_info" /\ v.fields[2].value = h
  BY <1>1 DEF Field
<1>4. Places(v, "owner") = {1} /\ Places(v, "compressed_info") = {2}
  BY <1>1, <1>3 DEF Places
<1>5. Text(v, "owner") = w.owner /\ Read(v, "compressed_info") = h
  <2>1. Only(v, "owner", Str(w.owner)) /\ Only(v, "compressed_info", h)
    BY <1>3, <1>4 DEF Only
  <2> QED
    BY <2>1, TextOnly, ReadOnly, Zenon
<1>6. AcceptsItem(v)
  BY <1>1, <1>2, <1>3, <1>4 DEF AcceptsItem, StringsAt, HasAll, Str
<1>7. DecodeItem(v) = w
  <2>1. w = [owner |-> w.owner, compressed_info |-> w.compressed_info]
    BY DEF Items
  <2> QED
    BY <1>2, <1>5, <2>1 DEF DecodeItem
<1> QED
  BY <1>6, <1>7 DEF v

(***************************************************************************)
(* The JSON of a page is accepted and read as the same page, with as many  *)
(* items in the same order, also if there are none.                        *)
(***************************************************************************)
THEOREM WalletListRoundTrip ==
  ASSUME NEW S, NEW l \in WalletLists(S)
  PROVE  /\ AcceptsWalletList(EncodeWalletList(l))
         /\ DecodeWalletList(EncodeWalletList(l)) = l
<1> DEFINE v == EncodeWalletList(l)
           es == [i \in 1..Len(l.wallets) |-> EncodeItem(l.wallets[i])]
<1>1. /\ v.kind = "object" /\ DOMAIN v.fields = {1, 2}
      /\ v.fields[1] = Field("wallets", Arr(es))
      /\ v.fields[2] = Field("next_from", Str(l.next_from))
  BY DEF EncodeWalletList, Obj
<1>2. l.wallets \in Seq(Items(S)) /\ l = [wallets |-> l.wallets, next_from |-> l.next_from]
  BY DEF WalletLists
<1>3. Len(l.wallets) \in Nat /\ \A i \in 1..Len(l.wallets) : l.wallets[i] \in Items(S)
  BY <1>2
<1>4. /\ DOMAIN es = 1..Len(l.wallets) /\ Len(es) = Len(l.wallets)
      /\ \A i \in 1..Len(l.wallets) : AcceptsItem(es[i]) /\ DecodeItem(es[i]) = l.wallets[i]
  <2>1. Len(es) = Len(l.wallets)
    BY <1>3
  <2> QED
    BY <1>3, <2>1, ItemRoundTrip
<1> HIDE DEF v, es
<1>5. /\ v.fields[1].key = "wallets" /\ v.fields[1].value = Arr(es)
      /\ v.fields[2].key = "next_from" /\ v.fields[2].value = Str(l.next_from)
  BY <1>1 DEF Field
<1>6. Places(v, "wallets") = {1} /\ Places(v, "next_from") = {2}
  BY <1>1, <1>5 DEF Places
<1>7. Text(v, "next_from") = l.next_from /\ Read(v, "wallets") = Arr(es)
  <2>1. Only(v, "next_from", Str(l.next_from)) /\ Only(v, "wallets", Arr(es))
    BY <1>5, <1>6 DEF Only
  <2> QED
    BY <2>1, TextOnly, ReadOnly, Zenon
<1>8. Arr(es).kind = "array" /\ Arr(es).elems = es
  BY DEF Arr
<1>9. AcceptsItems(Arr(es))
  BY <1>4, <1>8 DEF AcceptsItems
<1>10. AcceptsWalletList(v)
  BY <1>1, <1>5, <1>6, <1>9 DEF AcceptsWalletList, StringsAt, HasAll, Str
<1>11. [i \in 1..Len(es) |-> DecodeItem(es[i])] = l.wallets
  BY <1>2, <1>4
<1>12. DecodeWalletList(v) = l
  BY <1>2, <1>7, <1>8, <1>11 DEF DecodeWalletList
<1> QED
  BY <1>10, <1>12 DEF v

(* The JSON of an Error is accepted and read as the same text. *)
LEMMA ErrorRoundTrip ==
  ASSUME NEW e
  PROVE  AcceptsError(EncodeError(e)) /\ DecodeError(EncodeError(e)) = e
<1> DEFINE v == EncodeError(e)
<1>1. /\ v.kind = "object" /\ DOMAIN v.fields = {1}
      /\ v.fields[1] = Field("error", Str(e))
  BY DEF EncodeError, Obj
<1> HIDE DEF v
<1>2. v.fields[1].key = "error" /\ v.fields[1].value = Str(e)
  BY <1>1 DEF Field
<1>3. Places(v, "error") = {1}
  BY <1>1, <1>2 DEF Places
<1>4. AcceptsError(v)
  BY <1>1, <1>2, <1>3 DEF AcceptsError, StringsAt, HasAll, Str
<1>5. DecodeError(v) = e
  <2>1. Only(v, "error", Str(e))
    BY <1>2, <1>3 DEF Only
  <2> QED
    BY <2>1, TextOnly, Zenon DEF DecodeError
<1> QED
  BY <1>4, <1>5 DEF v
-----------------------------------------------------------------------------
(***************************************************************************)
(* Whatever Decode accepts, from this server or any other, is a value of   *)
(* the schema, for every order and repetition of the fields.               *)
(***************************************************************************)
(* The strings among the fields of an object are in S. *)
Texts(v, S) ==
  \E n \in Nat :
    /\ DOMAIN v.fields = 1..n
    /\ \A i \in 1..n : v.fields[i].value.kind = "string" => v.fields[i].value.text \in S

(* ... and those of the compressed_info in it. *)
InfoTexts(v, S) ==
  Texts(v, S) /\ \A i \in Places(v, "compressed_info") : Texts(v.fields[i].value, S)

(* ... and those of the wallets in it. *)
ListTexts(v, S) ==
  /\ Texts(v, S)
  /\ \A i \in Places(v, "wallets") :
       LET es == v.fields[i].value.elems
       IN /\ \E E : es \in Seq(E)
          /\ \A j \in 1..Len(es) : InfoTexts(es[j], S)

(* What is seen has a last place: numbers up to a bound have a greatest.   *)
LEMMA LastPlaceExists ==
  ASSUME NEW v, NEW S, Texts(v, S), NEW k, Places(v, k) # {}
  PROVE  LastPlace(v, k) \in Places(v, k)
<1> DEFINE R == OpToRel(<, Nat)
<1>1. PICK n \in Nat : DOMAIN v.fields = 1..n
  BY DEF Texts
<1> DEFINE P == Places(v, k)
           T == { m \in 0..n : n - m \in P }
<1>2. P \subseteq 1..n
  BY <1>1 DEF Places
<1>3. T \subseteq Nat /\ T # {}
  <2>1. PICK i \in P : TRUE
    OBVIOUS
  <2>2. n - i \in 0..n /\ n - (n - i) = i
    BY <1>2, <2>1
  <2>3. n - i \in T
    BY <2>1, <2>2
  <2> QED
    BY <2>3
<1>4. PICK m \in T : \A l \in T : <<l, m>> \notin R
  <2> HIDE DEF R, T
  <2>1. IsWellFoundedOn(R, Nat)
    BY NatLessThanWellFounded DEF R
  <2> QED
    BY <1>3, <2>1, WFMin
<1>5. \A l \in T : ~(l < m)
  BY <1>3, <1>4 DEF OpToRel
<1>6. \A j \in P : j <= n - m
  <2> SUFFICES ASSUME NEW j \in P PROVE j <= n - m
    OBVIOUS
  <2>1. n - j \in 0..n /\ n - (n - j) = j
    BY <1>2
  <2>2. n - j \in T
    BY <2>1
  <2>3. ~(n - j < m)
    BY <1>5, <2>2
  <2> QED
    BY <1>2, <2>3
<1>7. n - m \in P
  OBVIOUS
<1> HIDE DEF P, T
<1>8. \E i \in P : \A j \in P : j <= i
  BY <1>6, <1>7
<1> QED
  BY <1>8 DEF P, LastPlace

(* A required string is one of those in the object. *)
LEMMA TextRead ==
  ASSUME NEW v, NEW S, Texts(v, S), NEW keys, StringsAt(v, keys),
         NEW k \in keys, Places(v, k) # {}
  PROVE  /\ Text(v, k) \in S
         /\ Read(v, k).text \in S
<1>1. LastPlace(v, k) \in Places(v, k)
  BY LastPlaceExists
<1> DEFINE i == LastPlace(v, k)
<1>2. i \in DOMAIN v.fields /\ v.fields[i].key = k
  BY <1>1 DEF Places
<1> HIDE DEF i
<1>3. v.fields[i].value.kind = "string"
  BY <1>2 DEF StringsAt
<1>4. v.fields[i].value.text \in S
  BY <1>2, <1>3 DEF Texts
<1> QED
  BY <1>4 DEF Text, Read, i

(* The three strings of a compressed info. *)
LEMMA CompressedInfoAccepted ==
  ASSUME NEW v, NEW S, Texts(v, S), AcceptsCompressedInfo(v)
  PROVE  DecodeCompressedInfo(v) \in CompressedInfos(S)
<1>1. StringsAt(v, CompressedKeys) /\ HasAll(v, CompressedKeys)
  BY DEF AcceptsCompressedInfo
<1>2. \A k \in CompressedKeys : Text(v, k) \in S
  BY <1>1, TextRead DEF HasAll
<1>3. Text(v, "amount") \in S /\ Text(v, "start_from") \in S /\ Text(v, "expired_at") \in S
  BY <1>2 DEF CompressedKeys
<1> QED
  BY <1>3 DEF DecodeCompressedInfo, CompressedInfos

(* The compressed_info that is read is one of those that were checked. *)
LEMMA InfoRead ==
  ASSUME NEW v, NEW S, InfoTexts(v, S), Places(v, "compressed_info") # {},
         \A i \in Places(v, "compressed_info") : AcceptsCompressedInfo(v.fields[i].value)
  PROVE  DecodeCompressedInfo(Read(v, "compressed_info")) \in CompressedInfos(S)
<1>1. LastPlace(v, "compressed_info") \in Places(v, "compressed_info")
  BY LastPlaceExists DEF InfoTexts
<1>2. /\ Texts(Read(v, "compressed_info"), S)
      /\ AcceptsCompressedInfo(Read(v, "compressed_info"))
  BY <1>1 DEF InfoTexts, Read
<1> QED
  BY <1>2, CompressedInfoAccepted

(***************************************************************************)
(* oas_json_gen.go, the required fields and the loop over an object: a     *)
(* WalletInfo that Decode accepts has each required field, of the right    *)
(* kind, from the object itself, and an optional field at most once,       *)
(* whoever has written it and however often a field is repeated.           *)
(***************************************************************************)
THEOREM WalletInfoAccepted ==
  ASSUME NEW v, NEW S, InfoTexts(v, S), AcceptsWalletInfo(v)
  PROVE  DecodeWalletInfo(v) \in WalletInfos(S)
<1> DEFINE keys == WalletInfoRequired \cup {"state_init"}
<1>1. Texts(v, S) /\ StringsAt(v, keys) /\ HasAll(v, WalletInfoRequired)
  BY DEF InfoTexts, AcceptsWalletInfo
<1>2. \A k \in WalletInfoRequired : Text(v, k) \in S
  BY <1>1, TextRead DEF HasAll
<1>3. /\ Text(v, "owner") \in S /\ Text(v, "jetton_wallet") \in S
      /\ Text(v, "custom_payload") \in S
  BY <1>2 DEF WalletInfoRequired
<1>4. DecodeOptString(v, "state_init") \in { {} } \cup { {s} : s \in S }
  <2>1. Places(v, "state_init") # {} => Read(v, "state_init").text \in S
    BY <1>1, TextRead
  <2> QED
    BY <2>1 DEF DecodeOptString
<1>5. DecodeOptCompressedInfo(v, "compressed_info")
        \in { {} } \cup { {c} : c \in CompressedInfos(S) }
  <2>1. Places(v, "compressed_info") # {} =>
          DecodeCompressedInfo(Read(v, "compressed_info")) \in CompressedInfos(S)
    BY InfoRead DEF AcceptsWalletInfo
  <2> QED
    BY <2>1 DEF DecodeOptCompressedInfo
<1> QED
  BY <1>3, <1>4, <1>5 DEF DecodeWalletInfo, WalletInfos

(* An item of a list has its owner and its compressed info. *)
LEMMA ItemAccepted ==
  ASSUME NEW v, NEW S, InfoTexts(v, S), AcceptsItem(v)
  PROVE  DecodeItem(v) \in Items(S)
<1>1. /\ Texts(v, S) /\ StringsAt(v, {"owner"})
      /\ Places(v, "owner") # {} /\ Places(v, "compressed_info") # {}
  BY DEF InfoTexts, AcceptsItem, HasAll
<1>2. Text(v, "owner") \in S
  BY <1>1, TextRead
<1>3. DecodeCompressedInfo(Read(v, "compressed_info")) \in CompressedInfos(S)
  BY <1>1, InfoRead DEF AcceptsItem, AcceptsItemInfo
<1> QED
  BY <1>2, <1>3 DEF DecodeItem, Items

(***************************************************************************)
(* oas_json_gen.go, WalletList.Decode: a page that is accepted has its     *)
(* next_from and only whole items, however many, so that no client takes a *)
(* page without next_from for the last one.                                *)
(***************************************************************************)
THEOREM WalletListAccepted ==
  ASSUME NEW v, NEW S, ListTexts(v, S), AcceptsWalletList(v)
  PROVE  DecodeWalletList(v) \in WalletLists(S)
<1> DEFINE i == LastPlace(v, "wallets")
           es == Read(v, "wallets").elems
<1>1. /\ Texts(v, S) /\ StringsAt(v, {"next_from"})
      /\ Places(v, "wallets") # {} /\ Places(v, "next_from") # {}
  BY DEF ListTexts, AcceptsWalletList, HasAll
<1>2. Text(v, "next_from") \in S
  BY <1>1, TextRead
<1>3. i \in Places(v, "wallets")
  BY <1>1, LastPlaceExists
<1>4. es = v.fields[i].value.elems
  BY DEF Read
<1>5. /\ \E E : es \in Seq(E)
      /\ \A j \in 1..Len(es) : InfoTexts(es[j], S)
  BY <1>3, <1>4 DEF ListTexts
<1>6. \A j \in DOMAIN es : AcceptsItem(es[j])
  BY <1>3, <1>4 DEF AcceptsWalletList, AcceptsItems
<1> HIDE DEF i, es
<1>7. Len(es) \in Nat /\ DOMAIN es = 1..Len(es)
  BY <1>5
<1>8. \A j \in 1..Len(es) : DecodeItem(es[j]) \in Items(S)
  BY <1>5, <1>6, <1>7, ItemAccepted
<1>9. [j \in 1..Len(es) |-> DecodeItem(es[j])] \in Seq(Items(S))
  BY <1>7, <1>8
<1>10. DecodeWalletList(v) = [wallets   |-> [j \in 1..Len(es) |-> DecodeItem(es[j])],
                              next_from |-> Text(v, "next_from")]
  BY DEF DecodeWalletList, es
<1> QED
  BY <1>2, <1>9, <1>10 DEF WalletLists
-----------------------------------------------------------------------------
(***************************************************************************)
(* Between the server and its clients.                                     *)
(***************************************************************************)

(* What a slot keeps between the handler and the end of the response.      *)
Kept(r) ==
  LET q == req[r]
  IN /\ phase[r] # "idle" => q.path \in {"/wallet/", "/wallets"}
     /\ stage[r] = "encode" /\ q.path # "/" => phase[r] = "replied"
     /\ stage[r] \in {"record", "count", "done"} => sent[r] # <<>>
     /\ r \in gone => phase[r] # "idle"
     /\ phase[r] = "replied" =>
          /\ reply[r].code \in {200, 400, 404, 500}
          /\ q.address \notin Accounts => reply[r].code = 400
          /\ reply[r].code = 400 /\ q.address \in Accounts => r \in gone
          /\ reply[r].code = 200 /\ q.path = "/wallet/" => reply[r].owner = q.address
          /\ sent[r] # <<>> => sent[r][1] = reply[r].code
     /\ phase[r] = "idle" /\ sent[r] # <<>> /\ q.path \in {"/wallet/", "/wallets"} =>
          sent[r][1] # 200

SlotInv == ServerInv /\ \A r \in Requests : Kept(r)

(* A request keeps it when it is another's turn. *)
LEMMA SameKept ==
  ASSUME NEW q \in Requests, Kept(q), Same(q)
  PROVE  Kept(q)'
  BY DEF Kept, Same

(* From the request to the handler: nothing is written before the reply,   *)
(* unless the request is turned away.                                      *)
LEMMA KeptServeHTTP ==
  ASSUME SlotInv, NEW r \in Requests, NEW q \in Calls, ServeHTTP(r, q)
  PROVE  Kept(r)'
<1>1. /\ stage[r] = "idle" /\ req'[r] = q
      /\ UNCHANGED <<phase, op, account, gone, reply>>
  BY DEF ServeHTTP, apiVars, SlotInv, ServerInv, CallTypes
<1>2. phase[r] = "idle" /\ sent[r] = <<>> /\ r \notin gone
  BY <1>1 DEF SlotInv, ServerInv, AtStage, Kept
<1>3. CASE Routed(q)
  <2>1. Enter(r, "decode") /\ sent' = sent
    BY <1>3 DEF ServeHTTP
  <2>2. stage'[r] = "decode"
    BY <2>1, EnterEffect DEF SlotInv, ServerInv, Stages
  <2> QED
    BY <1>1, <1>2, <2>1, <2>2 DEF Kept
<1>4. CASE ~Routed(q)
  <2>1. Enter(r, "done") /\ WriteHeader(r, <<StatusOf(q)>>)
    BY <1>4 DEF ServeHTTP
  <2>2. q.path \in Operations => StatusOf(q) \in {204, 405}
    BY DEF StatusOf, Operations
  <2>3. StatusOf(q) \in {200, 204, 404, 405}
    BY DEF StatusOf, Operations, Calls, Paths
  <2>4. sent'[r] = <<StatusOf(q)>>
    <3>1. <<StatusOf(q)>> \in Seq(StatusCodes)
      BY <2>3, OneStatus DEF StatusCodes
    <3> QED
      BY <2>1, <3>1, WriteEffect, Zenon DEF SlotInv, ServerInv
  <2>5. sent'[r] # <<>> /\ sent'[r][1] = StatusOf(q)
    BY <2>3, <2>4, OneStatus DEF StatusCodes
  <2>6. stage'[r] = "done"
    BY <2>1, EnterEffect DEF SlotInv, ServerInv, Stages
  <2> QED
    BY <1>1, <1>2, <2>2, <2>5, <2>6 DEF Kept, Operations
<1> QED
  BY <1>3, <1>4

(* One step of the server at a time: what was sent stays consistent.        *)
LEMMA KeptDecodeFails ==
  ASSUME SlotInv, NEW r \in Requests, DecodeFails(r)
  PROVE  Kept(r)'
<1>1. /\ stage[r] = "decode" /\ WriteHeader(r, <<400>>) /\ Enter(r, "record")
      /\ UNCHANGED <<phase, op, account, gone, reply, req>>
  BY DEF DecodeFails, apiVars
<1>2. phase[r] = "idle" /\ r \notin gone
  BY <1>1 DEF SlotInv, ServerInv, AtStage, Kept
<1>3. sent'[r] = <<400>>
  BY <1>1 DEF WriteHeader, SlotInv, ServerInv, CallTypes
<1>4. sent'[r] # <<>> /\ sent'[r][1] = 400
  BY <1>3
<1>5. stage'[r] = "record"
  BY <1>1, EnterEffect DEF SlotInv, ServerInv, Stages
<1> QED
  BY <1>1, <1>2, <1>4, <1>5 DEF Kept

(* ... by the answer to GET / ... *)
LEMMA KeptGetApiInfo ==
  ASSUME SlotInv, NEW r \in Requests, GetApiInfo(r)
  PROVE  Kept(r)'
<1>1. /\ stage[r] = "decode" /\ req[r].path = "/" /\ Enter(r, "encode")
      /\ UNCHANGED <<phase, op, account, gone, reply, req, sent>>
  BY DEF GetApiInfo, apiVars
<1>2. phase[r] = "idle" /\ sent[r] = <<>> /\ Kept(r)
  BY <1>1 DEF SlotInv, ServerInv, AtStage
<1>3. stage'[r] = "encode"
  BY <1>1, EnterEffect DEF SlotInv, ServerInv, Stages
<1> QED
  BY <1>1, <1>2, <1>3 DEF Kept

(* The handler knows a malformed address, and nothing else, to be one.     *)
LEMMA KeptCallHandler ==
  ASSUME SlotInv, NEW r \in Requests, CallHandler(r)
  PROVE  Kept(r)'
<1>1. /\ stage[r] = "decode" /\ req[r].path # "/" /\ UNCHANGED <<req, sent>>
  BY DEF CallHandler
<1>2. /\ phase[r] = "idle" /\ sent[r] = <<>> /\ r \notin gone
      /\ req[r].path \in {"/wallet/", "/wallets"}
  BY <1>1 DEF SlotInv, ServerInv, AtStage, Kept, Routed, Operations
<1>3. CASE req[r].address = Malformed
  <2>1. Api!BadCall(r) /\ Enter(r, "encode")
    BY <1>3 DEF CallHandler
  <2>2. stage'[r] = "encode"
    BY <2>1, EnterEffect DEF SlotInv, ServerInv, Stages
  <2>3. /\ phase'[r] = "replied" /\ reply'[r].code = 400 /\ gone' = gone
    BY <2>1 DEF Api!BadCall, Api!Failure, SlotInv, ServerInv, CallTypes
  <2>4. req[r].address \notin Accounts
    BY <1>3, ServerAssumption
  <2> QED
    BY <1>1, <1>2, <2>2, <2>3, <2>4 DEF Kept
<1>4. CASE req[r].address # Malformed
  <2>1. /\ Api!Call(r, OperationOf(req[r]), req[r].address)
        /\ Enter(r, "handle")
    BY <1>4 DEF CallHandler, OperationOf
  <2>2. stage'[r] = "handle"
    BY <2>1, EnterEffect DEF SlotInv, ServerInv, Stages
  <2>3. phase'[r] = "serving" /\ gone' = gone
    BY <2>1 DEF Api!Call, SlotInv, ServerInv, CallTypes
  <2> QED
    BY <1>1, <1>2, <2>2, <2>3 DEF Kept
<1> QED
  BY <1>3, <1>4

(* The reply is about the account that the request names. *)
LEMMA KeptHandlerReturns ==
  ASSUME SlotInv, NEW r \in Requests, HandlerReturns(r)
  PROVE  Kept(r)'
<1>1. /\ stage[r] = "handle" /\ Api!Answer(r) /\ Enter(r, "encode")
      /\ UNCHANGED <<req, sent>>
  BY DEF HandlerReturns
<1>2. /\ sent[r] = <<>> /\ Called(r) /\ Routed(req[r])
  BY <1>1 DEF SlotInv, ServerInv, AtStage
<1>3. stage'[r] = "encode"
  BY <1>1, EnterEffect DEF SlotInv, ServerInv, Stages
<1>4. /\ phase'[r] = "replied" /\ gone' = gone
  BY <1>1 DEF Api!Answer, SlotInv, ServerInv, CallTypes
<1>5. PICK rep \in Api!Allowed(op[r], account[r], r \in gone) : reply'[r] = rep
  BY <1>1 DEF Api!Answer, SlotInv, ServerInv, CallTypes
<1>6. /\ rep.code \in {200, 400, 404, 500}
      /\ rep.code = 200 /\ op[r] # "GetWallets" => rep.owner = account[r]
      /\ rep.code = 400 => r \in gone
  BY <1>5 DEF Api!Allowed, Api!Failure
<1>7. /\ req[r].path \in {"/wallet/", "/wallets"} /\ req[r].address \in Accounts
      /\ req[r].path = "/wallet/" => op[r] # "GetWallets"
      /\ account[r] = req[r].address
  BY <1>2 DEF Called, Routed, Operations, OperationOf
<1> QED
  BY <1>1, <1>2, <1>3, <1>4, <1>5, <1>6, <1>7 DEF Kept

(* The status written first is that of the reply. *)
LEMMA KeptEncode ==
  ASSUME SlotInv, NEW r \in Requests,
         NEW statuses \in Seq(StatusCodes),
         NEW s \in {"record", "count"},
         stage[r] = "encode", statuses # <<>>, statuses[1] = CodeOf(r),
         WriteHeader(r, statuses), Enter(r, s), UNCHANGED <<apiVars, req>>
  PROVE  Kept(r)'
<1>1. stage'[r] = s
  BY EnterEffect DEF SlotInv, ServerInv, Stages
<1>2. sent'[r] = statuses
  BY WriteEffect DEF SlotInv, ServerInv
<1>3. UNCHANGED <<phase, op, account, gone, reply, req>>
  BY DEF apiVars
<1>4. /\ Kept(r) /\ phase[r] # "serving"
      /\ phase[r] = "replied" => req[r].path # "/"
      /\ phase[r] = "idle" => req[r].path = "/"
  BY DEF SlotInv, ServerInv, AtStage, Kept
<1> QED
  BY <1>1, <1>2, <1>3, <1>4 DEF Kept, CodeOf

(* ... by the response of the handler ... *)
LEMMA KeptEncodeResponse ==
  ASSUME SlotInv, NEW r \in Requests, EncodeResponse(r)
  PROVE  Kept(r)'
<1>1. /\ <<200>> \in Seq(StatusCodes)
      /\ <<200, 500>> \in Seq(StatusCodes)
      /\ <<200>>[1] = 200 /\ <<200, 500>>[1] = 200
      /\ <<200>> # <<>> /\ <<200, 500>> # <<>>
  BY OneStatus, TwoStatuses DEF StatusCodes
<1>2. CASE WriteHeader(r, <<200>>) /\ Enter(r, "count")
  BY <1>1, <1>2, KeptEncode DEF EncodeResponse
<1>3. CASE WriteHeader(r, <<200, 500>>) /\ Enter(r, "record")
  BY <1>1, <1>3, KeptEncode DEF EncodeResponse
<1> QED
  BY <1>2, <1>3 DEF EncodeResponse

(* ... by its error ... *)
LEMMA KeptEncodeErrorResponse ==
  ASSUME SlotInv, NEW r \in Requests, EncodeErrorResponse(r)
  PROVE  Kept(r)'
<1>1. /\ stage[r] = "encode"
      /\ WriteHeader(r, <<CodeOf(r)>>) /\ UNCHANGED <<apiVars, req>>
      /\ Enter(r, "record") \/ Enter(r, "count")
  BY DEF EncodeErrorResponse
<1>2. CodeOf(r) \in {200, 400, 404, 500}
  BY <1>1 DEF SlotInv, ServerInv, AtStage
<1>3. /\ <<CodeOf(r)>> \in Seq(StatusCodes)
      /\ <<CodeOf(r)>>[1] = CodeOf(r) /\ <<CodeOf(r)>> # <<>>
  BY <1>2, OneStatus DEF StatusCodes
<1> QED
  BY <1>1, <1>3, KeptEncode

(* ... by the deferred counters ... *)
LEMMA KeptCounting ==
  ASSUME SlotInv, NEW r \in Requests, RecordError(r) \/ CountRequest(r)
  PROVE  Kept(r)'
<1>1. /\ stage[r] \in {"record", "count"}
      /\ Enter(r, "count") \/ Enter(r, "done")
      /\ UNCHANGED <<phase, op, account, gone, reply, req, sent>>
  BY DEF RecordError, CountRequest, apiVars
<1>2. stage'[r] \in {"count", "done"}
  BY <1>1, EnterEffect DEF SlotInv, ServerInv, Stages
<1>3. Kept(r)
  BY DEF SlotInv
<1> QED
  BY <1>1, <1>2, <1>3 DEF Kept

(* ... by a client that leaves ... *)
LEMMA KeptLeave ==
  ASSUME SlotInv, NEW r \in Requests, Leave(r)
  PROVE  Kept(r)'
<1>1. /\ phase[r] = "serving" /\ gone' = gone \cup {r}
      /\ UNCHANGED <<phase, op, account, reply, stage, req, sent>>
  BY DEF Leave, Api!Leave
<1>2. Kept(r)
  BY DEF SlotInv
<1> QED
  BY <1>1, <1>2 DEF Kept

(* ... and by the end of a request. *)
LEMMA KeptRelease ==
  ASSUME SlotInv, NEW r \in Requests, Release(r)
  PROVE  Kept(r)'
<1>1. /\ stage[r] = "done" /\ Enter(r, "idle")
      /\ sent' = [sent EXCEPT ![r] = <<>>]
  BY DEF Release
<1>2. stage'[r] = "idle" /\ sent'[r] = <<>>
  BY <1>1, EnterEffect DEF SlotInv, ServerInv, Stages, CallTypes
<1>3. phase[r] \in {"idle", "replied"} /\ Kept(r)
  BY <1>1 DEF SlotInv, ServerInv, CallTypes, AtStage
<1>4. phase'[r] = "idle" /\ r \notin gone'
  <2>1. CASE phase[r] = "replied"
    BY <2>1 DEF Release, Api!Release, SlotInv, ServerInv, CallTypes
  <2>2. CASE phase[r] = "idle"
    BY <1>3, <2>2 DEF Release, apiVars, Kept
  <2> QED
    BY <1>3, <2>1, <2>2
<1> QED
  BY <1>2, <1>4 DEF Kept
-----------------------------------------------------------------------------
(* What a step of slot r does to all slots. *)
SlotStep(r) ==
  \/ \E q \in Calls : ServeHTTP(r, q)
  \/ Serve(r)
  \/ Leave(r)
  \/ Release(r)

(* No slot is in use at first. *)
LEMMA SlotInvInit == Init => SlotInv
<1> SUFFICES ASSUME Init PROVE SlotInv
  OBVIOUS
<1>1. \A r \in Requests : Kept(r)
  BY DEF Init, Kept
<1> QED
  BY <1>1, ServerInvInit DEF SlotInv

(* A step of one slot keeps what is known of all slots, and changes no     *)
(* other slot.                                                             *)
LEMMA SlotInvStep ==
  ASSUME SlotInv, NEW r \in Requests, SlotStep(r)
  PROVE  SlotInv' /\ \A q \in Requests \ {r} : Same(q)
<1>1. ServerInv
  BY DEF SlotInv
<1>2. Keeps(r)
  BY <1>1, KeepsServeHTTP, KeepsDecodeFails, KeepsGetApiInfo, KeepsCallHandler,
     KeepsHandlerReturns, KeepsEncodeResponse, KeepsEncodeErrorResponse,
     KeepsCounting, KeepsLeave, KeepsRelease DEF SlotStep, Serve
<1>3. Kept(r)'
  BY KeptServeHTTP, KeptDecodeFails, KeptGetApiInfo, KeptCallHandler,
     KeptHandlerReturns, KeptEncodeResponse, KeptEncodeErrorResponse,
     KeptCounting, KeptLeave, KeptRelease DEF SlotStep, Serve
<1>4. \A q \in Requests \ {r} : AtStage(q)' /\ Told(q)'
  BY <1>1, <1>2, SameKeeps DEF Keeps, ServerInv
<1>5. \A q \in Requests \ {r} : Kept(q)'
  BY <1>2, SameKept DEF Keeps, SlotInv
<1> QED
  BY <1>2, <1>3, <1>4, <1>5 DEF Keeps, SlotInv, ServerInv

(* A process that has ended has no requests. *)
LEMMA SlotInvExit == Exit => SlotInv'
<1> SUFFICES ASSUME Exit PROVE SlotInv'
  OBVIOUS
<1>1. CallTypes'
  BY NoCallIsCall DEF Exit, CallTypes, Api!NoReply, Api!Operations, Stages
<1>2. \A r \in Requests : AtStage(r)' /\ Told(r)'
  BY DEF Exit, AtStage, Told
<1>3. \A r \in Requests : Kept(r)'
  BY DEF Exit, Kept
<1> QED
  BY <1>1, <1>2, <1>3 DEF SlotInv, ServerInv

(* Nothing happens to the slots. *)
LEMMA SlotInvStays == SlotInv /\ UNCHANGED vars => SlotInv'
  BY DEF SlotInv, Kept, vars, apiVars, ServerInv, CallTypes, AtStage, Told, Called, CodeOf

(* The goroutine of a request never changes the request, whom it takes for *)
(* gone, or the number of calls, and does not give up the slot.            *)
LEMMA WorkIsSlotStep ==
  ASSUME SlotInv, NEW r \in Requests, Work(r)
  PROVE  /\ SlotStep(r)
         /\ stage'[r] # "idle"
         /\ UNCHANGED <<req, gone, calls, at, prover>>
<1>1. Serve(r)
  BY DEF Work, Answers, Serve
<1>2. UNCHANGED <<at, prover>>
  BY DEF Work, processVars
<1>3. /\ \E s \in {"record", "encode", "handle", "count", "done"} : Enter(r, s)
      /\ UNCHANGED <<req, gone, calls>>
  BY <1>1 DEF Serve, DecodeFails, GetApiInfo, CallHandler, HandlerReturns,
     EncodeResponse, EncodeErrorResponse, RecordError, CountRequest,
     Api!BadCall, Api!Call, Api!Answer, apiVars, countVars
<1>4. stage'[r] # "idle"
  BY <1>3, EnterEffect DEF SlotInv, ServerInv, Stages
<1> QED
  BY <1>1, <1>2, <1>3, <1>4 DEF SlotStep
-----------------------------------------------------------------------------
(* The truth, and more than a caller sees of it: a status is about an      *)
(* account if it is not 400.                                               *)
Truthful(a, res) ==
  /\ res.kind \in {"value", "status", "error"}
  /\ TruthTold(a, res)
  /\ res.kind = "status" =>
       /\ a.operation # "GetApiInfo"
       /\ res.code \in {400, 404, 500}
       /\ res.code = 400 <=> a.address \notin Accounts

(* An error without a status says nothing. *)
LEMMA FailedIsTruthful == \A a : Truthful(a, Failed)
  BY DEF Truthful, TruthTold, Failed

(* What a caller is told: the truth, unless it has a look-alike.           *)
MayBeTold(a, res, alike) ==
  IF alike THEN res.kind \in {"value", "status", "error"} ELSE Truthful(a, res)

(* A decoder returns a value, an error with a status or one without.       *)
LEMMA DecodedKinds ==
  ASSUME NEW o \in {"GetApiInfo", "GetWalletInfo", "GetWallets"}, NEW rsp
  PROVE  DecodeResponse(o, rsp).kind \in {"value", "status", "error"}
<1>1. /\ \A x : Value(x).kind = "value"
      /\ \A k, x : StatusError(k, x).kind = "status"
      /\ Failed.kind = "error"
  BY DEF Value, StatusError, Failed
<1>2. DecodeDefault(rsp).kind \in {"status", "error"}
  BY <1>1 DEF DecodeDefault
<1>3. /\ DecodeGetApiInfo(rsp).kind \in {"value", "error"}
      /\ DecodeGetWalletInfo(rsp).kind \in {"value", "error"}
      /\ DecodeGetWallets(rsp).kind \in {"value", "error"}
  BY <1>1 DEF DecodeGetApiInfo, DecodeGetWalletInfo, DecodeGetWallets
<1> QED
  BY <1>2, <1>3 DEF DecodeResponse

(* The error message of ogenerrors is neither an Error nor a wallet.       *)
LEMMA ErrorMessageRefused ==
  /\ ~AcceptsError(ErrorMessage)
  /\ ~AcceptsWalletInfo(ErrorMessage)
  /\ ~AcceptsWalletList(ErrorMessage)
<1>1. /\ DOMAIN ErrorMessage.fields = {1}
      /\ ErrorMessage.fields[1] = Field("error_message", Str(SomeText))
  BY DEF ErrorMessage, Obj
<1>2. ErrorMessage.fields[1].key = "error_message"
  BY <1>1 DEF Field
<1>3. \A k : k # "error_message" => Places(ErrorMessage, k) = {}
  BY <1>1, <1>2 DEF Places
<1>4. /\ Places(ErrorMessage, "error") = {} /\ Places(ErrorMessage, "owner") = {}
      /\ Places(ErrorMessage, "wallets") = {}
  BY <1>3
<1> QED
  BY <1>4 DEF AcceptsError, AcceptsWalletInfo, AcceptsWalletList, HasAll, WalletInfoRequired

(* An object with two of the three fields is nothing that is accepted.     *)
LEMMA HalfWalletRefused ==
  ASSUME NEW x, NEW y,
         NEW v, v = Obj(<< Field("owner", Str(x)), Field("jetton_wallet", Str(y)) >>)
  PROVE  ~AcceptsError(v) /\ ~AcceptsWalletInfo(v) /\ ~AcceptsWalletList(v)
<1>1. /\ DOMAIN v.fields = {1, 2}
      /\ v.fields[1] = Field("owner", Str(x)) /\ v.fields[2] = Field("jetton_wallet", Str(y))
  BY DEF Obj
<1>2. v.fields[1].key = "owner" /\ v.fields[2].key = "jetton_wallet"
  BY <1>1 DEF Field
<1>3. /\ Places(v, "error") = {} /\ Places(v, "custom_payload") = {}
      /\ Places(v, "wallets") = {}
  BY <1>1, <1>2 DEF Places
<1> QED
  BY <1>3 DEF AcceptsError, AcceptsWalletInfo, AcceptsWalletList, HasAll, WalletInfoRequired

(* A body with no value, with two, or with one that is not accepted.       *)
LEMMA RefusedFails ==
  ASSUME NEW o \in {"GetApiInfo", "GetWalletInfo", "GetWallets"}, NEW rsp,
         rsp.type # "text/plain" \/ rsp.status # 200 \/ o # "GetApiInfo" \/ ~rsp.whole,
         \/ ~OneValue(rsp)
         \/ LET v == rsp.values[1]
            IN ~AcceptsError(v) /\ ~AcceptsWalletInfo(v) /\ ~AcceptsWalletList(v)
  PROVE  DecodeResponse(o, rsp) = Failed
  BY DEF DecodeResponse, DecodeDefault, DecodeGetApiInfo, DecodeGetWalletInfo, DecodeGetWallets

(* No object of one schema passes for one of another. *)
LEMMA SchemasDiffer ==
  /\ \A e : LET v == EncodeError(e) IN ~AcceptsWalletInfo(v) /\ ~AcceptsWalletList(v)
  /\ \A a : LET v == EncodeWalletInfo(InfoOf(a)) IN ~AcceptsError(v) /\ ~AcceptsWalletList(v)
  /\ \A p : LET v == EncodeWalletList(p) IN ~AcceptsError(v) /\ ~AcceptsWalletInfo(v)
<1>1. ASSUME NEW e, NEW v, v = EncodeError(e)
      PROVE  ~AcceptsWalletInfo(v) /\ ~AcceptsWalletList(v)
  <2>1. DOMAIN v.fields = {1} /\ v.fields[1].key = "error"
    BY <1>1 DEF EncodeError, Obj, Field
  <2>2. Places(v, "owner") = {} /\ Places(v, "wallets") = {}
    BY <2>1 DEF Places
  <2> QED
    BY <2>2 DEF AcceptsWalletInfo, AcceptsWalletList, HasAll, WalletInfoRequired
<1>2. ASSUME NEW a, NEW v, v = EncodeWalletInfo(InfoOf(a))
      PROVE  ~AcceptsError(v) /\ ~AcceptsWalletList(v)
  <2> DEFINE fs == v.fields
             w == InfoOf(a)
             y == Amounts
             x == SomeText
  <2>1. w.state_init = {x} /\ w.compressed_info = {y}
    BY DEF InfoOf
  <2>2. fs = EncodeWalletInfo(w).fields
    BY <1>2
  <2> HIDE DEF fs, w, x, y
  <2>3. fs = << Field("owner", Str(w.owner)),
                Field("jetton_wallet", Str(w.jetton_wallet)),
                Field("custom_payload", Str(w.custom_payload)),
                Field("state_init", Str(x)),
                Field("compressed_info", EncodeCompressedInfo(y)) >>
    <3>1. w.state_init \in { {}, {x} } /\ w.state_init # {}
      BY <2>1
    <3>2. w.compressed_info \in { {}, {y} } /\ w.compressed_info # {}
      BY <2>1
    <3> QED
      BY <2>2, <3>1, <3>2, WalletInfoFields
  <2>4. /\ DOMAIN fs = 1..5
        /\ fs[1].key = "owner" /\ fs[2].key = "jetton_wallet" /\ fs[3].key = "custom_payload"
        /\ fs[4].key = "state_init" /\ fs[5].key = "compressed_info"
    <3>1. \A k, z : Field(k, z).key = k
      BY DEF Field
    <3> QED
      BY <2>3, <3>1
  <2>5. \A i \in DOMAIN fs : fs[i].key \notin {"error", "wallets"}
    BY <2>4
  <2>6. Places(v, "error") = {} /\ Places(v, "wallets") = {}
    BY <2>5 DEF Places, fs
  <2> QED
    BY <2>6 DEF AcceptsError, AcceptsWalletList, HasAll
<1>3. ASSUME NEW p, NEW v, v = EncodeWalletList(p)
      PROVE  ~AcceptsError(v) /\ ~AcceptsWalletInfo(v)
  <2>1. /\ DOMAIN v.fields = {1, 2}
        /\ v.fields[1].key = "wallets" /\ v.fields[2].key = "next_from"
    BY <1>3 DEF EncodeWalletList, Obj, Field
  <2>2. Places(v, "error") = {} /\ Places(v, "owner") = {}
    BY <2>1 DEF Places
  <2> QED
    BY <2>2 DEF AcceptsError, AcceptsWalletInfo, HasAll, WalletInfoRequired
<1> QED
  BY <1>1, <1>2, <1>3

(* A single value of our own that is none the operation returns. *)
LEMMA OtherSchemaFails ==
  ASSUME NEW o \in {"GetApiInfo", "GetWalletInfo", "GetWallets"}, NEW rsp,
         rsp.type = "application/json",
         \/ AcceptsError(rsp.values[1]) => rsp.status = 200
         \/ ~OneValue(rsp),
         rsp.status = 200 =>
           /\ o = "GetWalletInfo" => ~AcceptsWalletInfo(rsp.values[1])
           /\ o = "GetWallets" => ~AcceptsWalletList(rsp.values[1])
  PROVE  DecodeResponse(o, rsp) = Failed
  BY DEF DecodeResponse, DecodeDefault, DecodeGetApiInfo, DecodeGetWalletInfo, DecodeGetWallets

(* What others answer is refused, but for the look-alikes.                 *)
LEMMA ForeignFails ==
  ASSUME NEW o \in {"GetApiInfo", "GetWalletInfo", "GetWallets"},
         NEW rsp \in Foreign, rsp \notin LookAlikes(o)
  PROVE  DecodeResponse(o, rsp) = Failed
<1>1. rsp.values \in ForeignBodies
  BY DEF Foreign
<1>2. rsp.type # "text/plain" \/ rsp.status # 200 \/ o # "GetApiInfo" \/ ~rsp.whole
  BY DEF LookAlikes
<1>3. CASE ~OneValue(rsp)
  BY <1>2, <1>3, RefusedFails
<1>4. CASE OneValue(rsp)
  <2>1. rsp.type = "application/json" /\ rsp.whole /\ Len(rsp.values) = 1
    BY <1>4 DEF OneValue
  <2>2. CASE rsp.values = <<ErrorMessage>>
    <3>1. rsp.values[1] = ErrorMessage
      BY <2>2
    <3> QED
      BY <1>2, <3>1, ErrorMessageRefused, RefusedFails
  <2>3. CASE rsp.values = << EncodeError(SomeText) >>
    <3>1. rsp.status = 200
      BY <2>1, <2>3 DEF LookAlikes
    <3>2. rsp.values[1] = EncodeError(SomeText)
      BY <2>3
    <3> QED
      BY <2>1, <3>1, <3>2, SchemasDiffer, OtherSchemaFails
  <2>4. ASSUME NEW a \in Accounts,
               rsp.values = << Obj(<< Field("owner", Str(a)), Field("jetton_wallet", Str(SomeText)) >>) >>
        PROVE  DecodeResponse(o, rsp) = Failed
    <3>1. rsp.values[1] = Obj(<< Field("owner", Str(a)), Field("jetton_wallet", Str(SomeText)) >>)
      BY <2>4
    <3>2. LET v == rsp.values[1]
          IN ~AcceptsError(v) /\ ~AcceptsWalletInfo(v) /\ ~AcceptsWalletList(v)
      BY <3>1, HalfWalletRefused
    <3> QED
      BY <1>2, <3>2, RefusedFails
  <2>5. ASSUME NEW a \in Accounts, rsp.values = << EncodeWalletInfo(InfoOf(a)) >>
        PROVE  DecodeResponse(o, rsp) = Failed
    <3>1. rsp.status = 200 => o # "GetWalletInfo"
      BY <2>1, <2>5 DEF LookAlikes
    <3>2. rsp.values[1] = EncodeWalletInfo(InfoOf(a))
      BY <2>5
    <3> QED
      BY <2>1, <3>1, <3>2, SchemasDiffer, OtherSchemaFails
  <2>6. ASSUME NEW p \in Pages, rsp.values = << EncodeWalletList(p) >>
        PROVE  DecodeResponse(o, rsp) = Failed
    <3>1. rsp.status = 200 => o # "GetWallets"
      BY <2>1, <2>6 DEF LookAlikes
    <3>2. rsp.values[1] = EncodeWalletList(p)
      BY <2>6
    <3> QED
      BY <2>1, <3>1, <3>2, SchemasDiffer, OtherSchemaFails
  <2>7. rsp.values # <<>> /\ \A x, y : rsp.values # <<x, y>>
    <3>1. ASSUME rsp.values = <<>> PROVE FALSE
      BY <2>1, <3>1
    <3>2. ASSUME NEW x, NEW y, rsp.values = <<x, y>> PROVE FALSE
      <4>1. Len(rsp.values) = 2
        BY <3>2
      <4> QED
        BY <2>1, <4>1
    <3> QED
      BY <3>1, <3>2
  <2> QED
    BY <1>1, <2>2, <2>3, <2>4, <2>5, <2>6, <2>7 DEF ForeignBodies
<1> QED
  BY <1>3, <1>4
-----------------------------------------------------------------------------
(* The wallets and pages of the service are values of their schemas.       *)
LEMMA InfoDecoded ==
  ASSUME NEW a
  PROVE  DecodeWalletInfo(EncodeWalletInfo(InfoOf(a))) = InfoOf(a)
<1> DEFINE S == {a, SomeText}
<1>1. Amounts \in CompressedInfos(S)
  BY DEF Amounts, CompressedInfos
<1>2. InfoOf(a) \in WalletInfos(S)
  BY <1>1 DEF InfoOf, WalletInfos
<1> QED
  BY <1>2, WalletInfoRoundTrip

(* A page is decoded to itself. *)
LEMMA PageDecoded ==
  ASSUME NEW p \in Pages
  PROVE  DecodeWalletList(EncodeWalletList(p)) = p
<1> DEFINE S == Airdrop \cup {SomeText, ""}
<1>1. Amounts \in CompressedInfos(S)
  BY DEF Amounts, CompressedInfos
<1>2. \A a \in Airdrop : [owner |-> a, compressed_info |-> Amounts] \in Items(S)
  BY <1>1 DEF Items
<1>3. /\ p.next_from = ""
      /\ p.wallets \in { <<>> } \cup { << [owner |-> a, compressed_info |-> Amounts] >> : a \in Airdrop }
  BY Zenon DEF Pages
<1>4. p = [wallets |-> p.wallets, next_from |-> p.next_from]
  BY DEF Pages
<1> HIDE DEF S
<1>5. p.wallets \in Seq(Items(S))
  <2>1. <<>> \in Seq(Items(S))
    OBVIOUS
  <2>2. ASSUME NEW x \in Items(S) PROVE <<x>> \in Seq(Items(S))
    OBVIOUS
  <2> QED
    BY <1>2, <1>3, <2>1, <2>2, Zenon
<1>6. p \in WalletLists(S)
  BY <1>3, <1>4, <1>5 DEF WalletLists, S
<1> QED
  BY <1>6, WalletListRoundTrip

(* What is sent for slot r: whole if the status line was the only one.     *)
Sent(r, rsp) ==
  LET code == sent[r][1]
  IN \/ ~rsp.whole
     \/ /\ code = 200 /\ req[r].path = "/"
        /\ rsp = Response(200, "text/plain", <<>>)
     \/ /\ code = 200 /\ req[r].path = "/wallet/"
        /\ rsp = Json(200, EncodeWalletInfo(InfoOf(reply[r].owner)))
     \/ /\ code = 200 /\ req[r].path = "/wallets"
        /\ \E p \in Pages : rsp = Json(200, EncodeWalletList(p))
     \/ /\ code # 200 /\ phase[r] = "replied"
        /\ rsp = Json(code, EncodeError(SomeText))
     \/ /\ code # 200 \/ req[r].path \notin {"/", "/wallet/", "/wallets"}
        /\ rsp = Json(code, ErrorMessage)

(* Sent(r, rsp) lists all that a slot can send. *)
LEMMA ResponsesAreSent ==
  ASSUME NEW r \in Requests, NEW rsp \in Responses(r)
  PROVE  Sent(r, rsp)
<1> DEFINE code == sent[r][1]
           sound == CASE code = 200 /\ req[r].path = "/" -> { Response(200, "text/plain", <<>>) }
                      [] code = 200 /\ req[r].path = "/wallet/" ->
                           { Json(200, EncodeWalletInfo(InfoOf(reply[r].owner))) }
                      [] code = 200 /\ req[r].path = "/wallets" ->
                           { Json(200, EncodeWalletList(p)) : p \in Pages }
                      [] phase[r] = "replied" /\ code # 200 -> { Json(code, EncodeError(SomeText)) }
                      [] OTHER -> { Json(code, ErrorMessage) }
<1>1. rsp \in IF Len(sent[r]) = 1 THEN sound ELSE { Cut(x) : x \in sound }
  BY Zenon DEF Responses
<1>2. CASE rsp \in sound
  BY <1>2 DEF Sent
<1>3. CASE \E x \in sound : rsp = Cut(x)
  <2> HIDE DEF sound
  <2>1. \A x \in sound : x.whole = TRUE /\ x = [x EXCEPT !.whole = TRUE]
    BY DEF sound, Json, Response
  <2>2. ~rsp.whole
    BY <1>3, <2>1 DEF Cut
  <2> QED
    BY <2>2 DEF Sent
<1> QED
  BY <1>1, <1>2, <1>3
-----------------------------------------------------------------------------
(* What the three operations are called with. *)
LEMMA AskedFields ==
  ASSUME NEW a \in Asked
  PROVE  /\ a.operation \in {"GetApiInfo", "GetWalletInfo", "GetWallets"}
         /\ a.address \in Accounts \cup {Malformed, Missing}
         /\ a.operation = "GetApiInfo" => a.address = Missing
         /\ a.operation = "GetWallets" => a.count \in Counts
  BY DEF Asked

(* So whatever others answer is told as it should be.                      *)
LEMMA ForeignIsTold ==
  ASSUME NEW a \in Asked, NEW answer \in ForeignAnswers[a.operation]
  PROVE  MayBeTold(a, answer.result, answer.alike) /\ answer.alike \in BOOLEAN
<1>1. a.operation \in {"GetApiInfo", "GetWalletInfo", "GetWallets"}
  BY AskedFields
<1>2. PICK rsp \in Foreign :
        answer = [result |-> DecodeResponse(a.operation, rsp),
                  alike |-> rsp \in LookAlikes(a.operation)]
  BY <1>1 DEF ForeignAnswers
<1>3. answer.result = DecodeResponse(a.operation, rsp)
  BY <1>2
<1>4. answer.alike = (rsp \in LookAlikes(a.operation))
  BY <1>2
<1>5. CASE rsp \in LookAlikes(a.operation)
  <2>1. answer.alike = TRUE
    BY <1>4, <1>5, Zenon
  <2>2. ASSUME NEW b, b = TRUE PROVE MayBeTold(a, answer.result, b)
    BY <1>1, <1>3, <2>2, DecodedKinds DEF MayBeTold
  <2> QED
    BY <2>1, <2>2
<1>6. CASE rsp \notin LookAlikes(a.operation)
  <2>1. answer.alike = FALSE
    <3>1. (rsp \in LookAlikes(a.operation)) = FALSE
      BY <1>6
    <3> QED
      BY <1>4, <3>1, Zenon
  <2>2. answer.result = Failed
    BY <1>1, <1>3, <1>6, ForeignFails
  <2>3. Truthful(a, answer.result)
    BY <2>2, FailedIsTruthful, Zenon
  <2>4. ASSUME NEW b, b = FALSE PROVE MayBeTold(a, answer.result, b)
    BY <2>3, <2>4, Zenon DEF MayBeTold
  <2> QED
    BY <2>1, <2>4
<1> QED
  BY <1>5, <1>6

(* A page is asked for with an address and a count that are allowed.       *)
LEMMA WellFormedPage ==
  ASSUME NEW q, WellFormed(q), q.path = "/wallets"
  PROVE  q.address \in Accounts /\ q.count \in AllowedCounts
  BY DEF WellFormed

(* The requests that clients make are calls of the operation asked for.    *)
LEMMA RequestFields ==
  ASSUME NEW a \in Asked
  PROVE  /\ RequestOf(a) \in Calls
         /\ RequestOf(a).method = "GET"
         /\ a.operation = "GetApiInfo" => RequestOf(a).path = "/"
         /\ a.operation = "GetWalletInfo" =>
              RequestOf(a).path = "/wallet/" /\ RequestOf(a).address = a.address
         /\ a.operation = "GetWallets" =>
              /\ RequestOf(a).path = "/wallets" /\ RequestOf(a).count = a.count
              /\ RequestOf(a).address = IF a.address = Missing THEN Malformed ELSE a.address
<1>1. /\ a.operation \in {"GetApiInfo", "GetWalletInfo", "GetWallets"}
      /\ a.address \in Accounts \cup {Malformed, Missing}
      /\ a.operation = "GetWallets" => a.count \in Counts
  BY AskedFields
<1>2. CASE a.operation = "GetApiInfo"
  <2>1. RequestOf(a) = Get("/", Missing, Missing)
    BY <1>2 DEF RequestOf
  <2> QED
    BY <1>2, <2>1 DEF Get, Calls, Paths, Methods
<1>3. CASE a.operation = "GetWalletInfo"
  <2>1. RequestOf(a) = Get("/wallet/", a.address, Missing)
    BY <1>3 DEF RequestOf
  <2> QED
    BY <1>1, <1>3, <2>1 DEF Get, Calls, Paths, Methods
<1>4. CASE a.operation = "GetWallets"
  <2>1. RequestOf(a) =
          Get("/wallets", IF a.address = Missing THEN Malformed ELSE a.address, a.count)
    BY <1>4 DEF RequestOf
  <2> QED
    BY <1>1, <1>4, <2>1 DEF Get, Calls, Paths, Methods
<1> QED
  BY <1>1, <1>2, <1>3, <1>4

(* An address of an account is one on both ends. *)
LEMMA AddressKept ==
  ASSUME NEW a \in Asked, a.operation # "GetApiInfo"
  PROVE  /\ RequestOf(a).address \in Accounts <=> a.address \in Accounts
         /\ a.address \in Accounts => RequestOf(a).address = a.address
  BY AskedFields, RequestFields, ServerAssumption

(***************************************************************************)
(* A caller that is sent the response of a slot which has its request, and *)
(* has not taken it for gone, is told the truth.                           *)
(***************************************************************************)
LEMMA AnswerTruthful ==
  ASSUME SlotInv, NEW r \in Requests, r \notin gone, sent[r] # <<>>,
         NEW a \in Asked, req[r] = RequestOf(a),
         NEW rsp, Sent(r, rsp)
  PROVE  Truthful(a, DecodeResponse(a.operation, rsp))
<1> DEFINE code == sent[r][1]
<1>1. /\ a.operation \in {"GetApiInfo", "GetWalletInfo", "GetWallets"}
      /\ req[r].path \in Operations
      /\ a.operation = "GetApiInfo" <=> req[r].path = "/"
      /\ a.operation = "GetWalletInfo" <=> req[r].path = "/wallet/"
      /\ a.operation = "GetWallets" <=> req[r].path = "/wallets"
  BY AskedFields, RequestFields DEF Operations
<1>2. Kept(r) /\ Says(code, req[r], r \in gone)
  BY <1>1 DEF SlotInv, ServerInv, Told
<1>3. CASE ~rsp.whole
  <2>1. DecodeResponse(a.operation, rsp) = Failed
    BY <1>1, <1>3, RefusedFails DEF OneValue
  <2> QED
    BY <2>1, FailedIsTruthful
<1>4. CASE rsp = Json(code, ErrorMessage)
  <2>1. rsp.type = "application/json" /\ rsp.values[1] = ErrorMessage
    BY <1>4 DEF Json, Response
  <2>2. DecodeResponse(a.operation, rsp) = Failed
    BY <1>1, <2>1, ErrorMessageRefused, RefusedFails
  <2> QED
    BY <2>2, FailedIsTruthful
<1>5. CASE req[r].path = "/" /\ rsp = Response(200, "text/plain", <<>>)
  <2>1. DecodeResponse(a.operation, rsp) = Value(SomeText)
    BY <1>1, <1>5 DEF DecodeResponse, DecodeGetApiInfo, Response
  <2> QED
    BY <1>1, <1>5, <2>1 DEF Truthful, TruthTold, Value
<1>6. CASE /\ code = 200 /\ req[r].path = "/wallet/"
           /\ rsp = Json(200, EncodeWalletInfo(InfoOf(reply[r].owner)))
  <2>1. a.operation = "GetWalletInfo" /\ a.address \in Airdrop
    BY <1>1, <1>2, <1>6, RequestFields DEF Says
  <2>2. phase[r] = "replied"
    BY <1>2, <1>6 DEF Kept, SlotInv, ServerInv, CallTypes, AtStage, Stages
  <2>3. reply[r].owner = a.address
    BY <1>2, <1>6, <2>1, <2>2, RequestFields DEF Kept
  <2>4. rsp.status = 200 /\ rsp.values[1] = EncodeWalletInfo(InfoOf(a.address))
    BY <1>6, <2>3 DEF Json, Response
  <2>5. DecodeResponse(a.operation, rsp) \in { Failed, Value(InfoOf(a.address)) }
    BY <2>1, <2>4, InfoDecoded DEF DecodeResponse, DecodeGetWalletInfo
  <2> QED
    BY <2>1, <2>5, FailedIsTruthful DEF Truthful, TruthTold, Value
<1>7. ASSUME NEW p \in Pages, code = 200, req[r].path = "/wallets",
             rsp = Json(200, EncodeWalletList(p))
      PROVE  Truthful(a, DecodeResponse(a.operation, rsp))
  <2>1. a.operation = "GetWallets" /\ WellFormed(req[r])
    BY <1>1, <1>2, <1>7 DEF Says
  <2>2. a.address \in Accounts /\ a.count \in AllowedCounts
    <3>0. req[r].path = "/wallets"
      BY <1>7
    <3>1. req[r].address \in Accounts
      BY <2>1, <3>0, WellFormedPage
    <3>2. a.address \in Accounts
      BY <2>1, <3>1, AddressKept
    <3>3. a.count \in AllowedCounts
      <4>1. req[r].count = a.count
        BY <2>1, RequestFields
      <4>2. req[r].count \in AllowedCounts
        BY <2>1, <3>0, WellFormedPage
      <4> QED
        BY <4>1, <4>2
    <3> QED
      BY <3>2, <3>3
  <2>3. rsp.status = 200 /\ rsp.values[1] = EncodeWalletList(p)
    BY <1>7 DEF Json, Response
  <2>4. DecodeResponse(a.operation, rsp) \in { Failed, Value(p) }
    BY <2>1, <2>3, PageDecoded DEF DecodeResponse, DecodeGetWallets
  <2>5. Truthful(a, Value(p))
    <3>1. Value(p).kind = "value" /\ Value(p).value = p
      BY DEF Value
    <3> QED
      BY <1>7, <2>1, <2>2, <3>1 DEF Truthful, TruthTold
  <2> QED
    BY <2>4, <2>5, FailedIsTruthful
<1>8. CASE /\ code # 200 /\ phase[r] = "replied"
           /\ rsp = Json(code, EncodeError(SomeText))
  <2>1. DecodeResponse(a.operation, rsp) \in { Failed, StatusError(code, SomeText) }
    <3>1. rsp.status = code /\ rsp.values[1] = EncodeError(SomeText)
      BY <1>8 DEF Json, Response
    <3> QED
      BY <1>8, <3>1, ErrorRoundTrip DEF DecodeResponse, DecodeDefault
  <2>2. a.operation # "GetApiInfo" /\ code \in {400, 404, 500}
    BY <1>1, <1>2, <1>8 DEF Kept
  <2>3. /\ a.address \notin Accounts => code = 400
        /\ code = 400 => a.address \notin Accounts
    BY <1>2, <1>8, <2>2, AddressKept DEF Kept
  <2>4. code = 404 => a.operation = "GetWalletInfo" /\ a.address \notin Airdrop
    BY <1>1, <1>2, RequestFields DEF Says
  <2>5. Truthful(a, StatusError(code, SomeText))
    <3>1. /\ StatusError(code, SomeText).kind = "status"
          /\ StatusError(code, SomeText).code = code
      BY DEF StatusError
    <3> QED
      BY <2>2, <2>3, <2>4, <3>1 DEF Truthful, TruthTold
  <2> QED
    BY <2>1, <2>5, FailedIsTruthful
<1> QED
  BY <1>1, <1>3, <1>4, <1>5, <1>6, <1>7, <1>8 DEF Sent
-----------------------------------------------------------------------------
(***************************************************************************)
(* The invariant.  A caller holds a slot while it waits; before and after  *)
(* that, what counts is what it asked and what it was told.                *)
(***************************************************************************)
ClientTypes ==
  /\ ProcessTypeOK
  /\ cstage \in [Callers -> CallerStages]
  /\ asked \in [Callers -> Asked]
  /\ conn \in [Callers -> Requests \cup {NoConn}]
  /\ result = [c \in Callers |-> result[c]]
  /\ known \in [Callers -> [op : Api!Operations, account : Accounts \cup {NoAccount}]]
  /\ believed \in SUBSET Callers

Caller(c) ==
  /\ conn[c] # NoConn <=> cstage[c] = "wait"
  /\ cstage[c] = "done" => MayBeTold(asked[c], result[c], c \in believed)
  /\ cstage[c] # "done" => result[c] = NoResult /\ c \notin believed
  /\ cstage[c] # "idle" /\ Known(asked[c]) =>
       known[c] = [op |-> asked[c].operation, account |-> asked[c].address]

RemoteInv ==
  /\ SlotInv
  /\ ClientTypes
  /\ \A c \in Callers : Caller(c)
  /\ NoCrossTalk

(* Nothing happens to the other callers. *)
OthersStay(c) ==
  \A d \in Callers \ {c} :
    /\ cstage'[d] = cstage[d] /\ asked'[d] = asked[d] /\ conn'[d] = conn[d]
    /\ result'[d] = result[d] /\ known'[d] = known[d]
    /\ d \in believed' <=> d \in believed

(* A caller that asks nothing is not known to ClaimApi. *)
LEMMA NoQuestionAsked == NoQuestion \in Asked /\ ~Known(NoQuestion)
  BY DEF NoQuestion, Asked, Known

(* The invariant holds at first ... *)
LEMMA RemoteInvInit == RemoteInit => RemoteInv
<1> SUFFICES ASSUME RemoteInit PROVE RemoteInv
  OBVIOUS
<1>1. ClientTypes
  BY NoQuestionAsked DEF RemoteInit, ProcessInit, ProcessTypeOK, Steps, Goroutine,
     ClientTypes, CallerStages, Api!Operations
<1>2. \A c \in Callers : Caller(c)
  BY NoQuestionAsked DEF RemoteInit, Caller
<1>3. NoCrossTalk
  BY DEF RemoteInit, NoCrossTalk
<1> QED
  BY <1>1, <1>2, <1>3, SlotInvInit DEF RemoteInit, RemoteInv

(* A step of a caller that leaves the server alone and holds no slot       *)
(* afterwards.                                                             *)
LEMMA CallerAlone ==
  ASSUME RemoteInv, NEW c \in Callers, UNCHANGED vars, OthersStay(c),
         ClientTypes', Caller(c)', cstage'[c] # "wait"
  PROVE  RemoteInv'
<1>1. SlotInv'
  BY SlotInvStays DEF RemoteInv
<1>2. \A d \in Callers \ {c} : Caller(d)'
  BY DEF RemoteInv, OthersStay, Caller, Known
<1>3. conn'[c] = NoConn
  BY DEF Caller
<1>4. NoCrossTalk'
  <2>1. ASSUME NEW d \in Callers, cstage'[d] = "wait"
        PROVE  /\ conn'[d] \in Requests \ gone'
               /\ stage'[conn'[d]] # "idle"
               /\ req'[conn'[d]] = RequestOf(asked'[d])
               /\ \A e \in Callers : conn'[e] = conn'[d] => e = d
    <3>1. d # c /\ cstage[d] = "wait" /\ conn'[d] = conn[d] /\ asked'[d] = asked[d]
      BY <2>1 DEF OthersStay
    <3>2. /\ conn[d] \in Requests \ gone /\ stage[conn[d]] # "idle"
          /\ req[conn[d]] = RequestOf(asked[d])
          /\ \A e \in Callers : conn[e] = conn[d] => e = d
      BY <3>1 DEF RemoteInv, NoCrossTalk
    <3>3. \A e \in Callers \ {c} : conn'[e] = conn[e]
      BY DEF OthersStay
    <3>4. conn'[c] # conn'[d]
      BY <1>3, <3>1, <3>2, RemoteAssumption
    <3>5. stage' = stage /\ req' = req /\ gone' = gone
      BY DEF vars, apiVars
    <3> QED
      BY <3>1, <3>2, <3>3, <3>4, <3>5
  <2> QED
    BY <2>1 DEF NoCrossTalk
<1> QED
  BY <1>1, <1>2, <1>4 DEF RemoteInv

(* The call is over, and its result comes from a look-alike or does not.   *)
FinishWith(c, res, alike) ==
  /\ Finish(c, res)
  /\ believed' = IF alike THEN believed \cup {c} ELSE believed

(* A caller that is told what it may be told is done. *)
LEMMA FinishEffect ==
  ASSUME RemoteInv, NEW c \in Callers, NEW res, NEW alike \in BOOLEAN,
         cstage[c] \in {"send", "wait", "broken"},
         MayBeTold(asked[c], res, alike), FinishWith(c, res, alike), UNCHANGED serverVars
  PROVE  /\ RemoteInv'
         /\ OthersStay(c)
         /\ cstage'[c] = "done" /\ result'[c] = res /\ (c \in believed') = alike
         /\ asked' = asked /\ known' = known
<1>1. /\ cstage' = [cstage EXCEPT ![c] = "done"]
      /\ result' = [result EXCEPT ![c] = res]
      /\ conn' = [conn EXCEPT ![c] = NoConn]
      /\ UNCHANGED <<asked, known>>
      /\ believed' = IF alike THEN believed \cup {c} ELSE believed
  BY DEF Finish, FinishWith, Move
<1>2. ClientTypes'
  <2>1. believed' \in SUBSET Callers
    BY <1>1 DEF RemoteInv, ClientTypes
  <2> QED
    BY <1>1, <2>1 DEF RemoteInv, ClientTypes, CallerStages, serverVars, processVars, ProcessTypeOK
<1>3. c \notin believed
  BY DEF RemoteInv, Caller
<1>4. /\ OthersStay(c) /\ cstage'[c] = "done" /\ result'[c] = res /\ conn'[c] = NoConn
      /\ (c \in believed') = alike
  BY <1>1, <1>3 DEF RemoteInv, ClientTypes, OthersStay
<1>5. Caller(c)'
  <2>1. MayBeTold(asked'[c], result'[c], c \in believed')
    BY <1>1, <1>4
  <2>2. MayBeTold(asked[c], result[c], c \in believed)'
    BY <2>1 DEF MayBeTold, Truthful, TruthTold
  <2> QED
    BY <1>1, <1>4, <2>2 DEF RemoteInv, Caller, Known
<1> QED
  BY <1>1, <1>2, <1>4, <1>5, CallerAlone DEF serverVars
-----------------------------------------------------------------------------
(* ... after a call ... *)
LEMMA InvInvoke ==
  ASSUME RemoteInv, NEW c \in Callers, Invoke(c)
  PROVE  RemoteInv' /\ OthersStay(c)
<1>1. PICK a \in Questions :
        /\ asked' = [asked EXCEPT ![c] = a]
        /\ known' = IF Known(a)
                    THEN [known EXCEPT ![c] = [op |-> a.operation, account |-> a.address]]
                    ELSE known
  BY DEF Invoke
<1>2. /\ cstage[c] = "idle" /\ cstage' = [cstage EXCEPT ![c] = "send"]
      /\ UNCHANGED <<serverVars, conn, result, believed>>
  BY DEF Invoke, Move
<1>3. a \in Asked
  BY RemoteAssumption
<1>4. known' \in [Callers -> [op : Api!Operations, account : Accounts \cup {NoAccount}]]
  <2>1. CASE Known(a)
    <3>1. [op |-> a.operation, account |-> a.address]
            \in [op : Api!Operations, account : Accounts \cup {NoAccount}]
      BY <1>3, <2>1, AskedFields DEF Known, Api!Operations
    <3> QED
      BY <1>1, <2>1, <3>1 DEF RemoteInv, ClientTypes
  <2>2. CASE ~Known(a)
    BY <1>1, <2>2 DEF RemoteInv, ClientTypes
  <2> QED
    BY <2>1, <2>2
<1>5. ClientTypes'
  BY <1>1, <1>2, <1>3, <1>4
  DEF RemoteInv, ClientTypes, CallerStages, serverVars, processVars, ProcessTypeOK
<1>6. /\ OthersStay(c) /\ cstage'[c] = "send" /\ asked'[c] = a
      /\ Known(a) => known'[c] = [op |-> a.operation, account |-> a.address]
  BY <1>1, <1>2 DEF RemoteInv, ClientTypes, OthersStay
<1>7. Caller(c)'
  BY <1>2, <1>6 DEF RemoteInv, Caller, Known
<1> QED
  BY <1>2, <1>5, <1>6, <1>7, CallerAlone DEF serverVars

(* ... and after its return. *)
LEMMA InvReturn ==
  ASSUME RemoteInv, NEW c \in Callers, Return(c)
  PROVE  RemoteInv' /\ OthersStay(c)
<1>1. /\ cstage[c] = "done" /\ cstage' = [cstage EXCEPT ![c] = "idle"]
      /\ asked' = [asked EXCEPT ![c] = NoQuestion]
      /\ result' = [result EXCEPT ![c] = NoResult]
      /\ believed' = believed \ {c}
      /\ UNCHANGED <<serverVars, conn, known>>
  BY DEF Return, Move
<1>2. ClientTypes'
  BY <1>1, NoQuestionAsked
  DEF RemoteInv, ClientTypes, CallerStages, serverVars, processVars, ProcessTypeOK
<1>3. OthersStay(c) /\ cstage'[c] = "idle" /\ result'[c] = NoResult
  BY <1>1 DEF RemoteInv, ClientTypes, OthersStay
<1>4. Caller(c)'
  BY <1>1, <1>3 DEF RemoteInv, Caller
<1> QED
  BY <1>1, <1>2, <1>3, <1>4, CallerAlone DEF serverVars

(* The question stays while its request is on the way. *)
LEMMA InvBreakResend ==
  ASSUME RemoteInv, NEW c \in Callers, Break(c) \/ Resend(c)
  PROVE  RemoteInv' /\ OthersStay(c) /\ UNCHANGED <<asked, result, known, believed>>
<1>1. /\ cstage[c] \in {"wait", "broken"}
      /\ \E s \in {"broken", "send"} : cstage' = [cstage EXCEPT ![c] = s]
      /\ conn' = [conn EXCEPT ![c] = NoConn]
      /\ UNCHANGED <<serverVars, asked, result, known, believed>>
  <2>1. CASE Break(c)
    BY <2>1 DEF Break, Move
  <2>2. CASE Resend(c)
    <3>1. conn[c] = NoConn
      BY <2>2 DEF Resend, RemoteInv, Caller
    <3>2. conn = [conn EXCEPT ![c] = NoConn]
      BY <3>1 DEF RemoteInv, ClientTypes
    <3> QED
      BY <2>2, <3>2 DEF Resend, Move
  <2> QED
    BY <2>1, <2>2
<1>2. ClientTypes'
  BY <1>1 DEF RemoteInv, ClientTypes, CallerStages, serverVars, processVars, ProcessTypeOK
<1>3. OthersStay(c) /\ cstage'[c] \in {"broken", "send"} /\ conn'[c] = NoConn
  BY <1>1 DEF RemoteInv, ClientTypes, OthersStay
<1>4. Caller(c)'
  BY <1>1, <1>3 DEF RemoteInv, Caller, Known
<1> QED
  BY <1>1, <1>2, <1>3, <1>4, CallerAlone DEF serverVars

(***************************************************************************)
(* Whatever a call of the client ends with is true: an answer of the slot  *)
(* it waited for, an answer of somebody else, or an error of its own.      *)
(***************************************************************************)
Finishing(c) == Refused(c) \/ Receive(c) \/ Intercept(c) \/ DoFails(c) \/ GiveUp(c)

(* Whatever ends a call ends it with a true result. *)
LEMMA FinishingIsTruthful ==
  ASSUME RemoteInv, NEW c \in Callers, Finishing(c)
  PROVE  /\ UNCHANGED serverVars
         /\ cstage[c] \in {"send", "wait", "broken"}
         /\ \E res : \E alike \in BOOLEAN :
              FinishWith(c, res, alike) /\ MayBeTold(asked[c], res, alike)
<1>0. ASSUME NEW res, Finish(c, res), believed' = believed, Truthful(asked[c], res)
      PROVE  FinishWith(c, res, FALSE) /\ MayBeTold(asked[c], res, FALSE)
  BY <1>0 DEF FinishWith, MayBeTold
<1>1. CASE Refused(c) \/ DoFails(c) \/ GiveUp(c)
  <2>1. /\ Finish(c, Failed) /\ UNCHANGED <<serverVars, believed>>
        /\ cstage[c] \in {"send", "wait", "broken"}
    BY <1>1 DEF Refused, DoFails, GiveUp
  <2> QED
    BY <1>0, <2>1, FailedIsTruthful
<1>2. asked[c] \in Asked
  BY DEF RemoteInv, ClientTypes
<1>3. CASE Intercept(c)
  <2>1. PICK answer \in ForeignAnswers[asked[c].operation] :
          FinishWith(c, answer.result, answer.alike)
    BY <1>3 DEF Intercept, FinishWith
  <2>2. MayBeTold(asked[c], answer.result, answer.alike) /\ answer.alike \in BOOLEAN
    BY <1>2, ForeignIsTold
  <2> QED
    BY <1>3, <2>1, <2>2 DEF Intercept
<1>4. CASE Receive(c)
  <2>1. PICK rsp \in Responses(conn[c]) : Finish(c, DecodeResponse(asked[c].operation, rsp))
    BY <1>4 DEF Receive
  <2>2. cstage[c] = "wait" /\ stage[conn[c]] = "done" /\ UNCHANGED <<serverVars, believed>>
    BY <1>4 DEF Receive
  <2>3. conn[c] \in Requests /\ conn[c] \notin gone /\ req[conn[c]] = RequestOf(asked[c])
    BY <2>2 DEF RemoteInv, NoCrossTalk
  <2>4. SlotInv /\ sent[conn[c]] # <<>>
    BY <2>2, <2>3 DEF RemoteInv, SlotInv, Kept
  <2>5. Sent(conn[c], rsp)
    BY <2>3, ResponsesAreSent
  <2>6. Truthful(asked[c], DecodeResponse(asked[c].operation, rsp))
    BY <1>2, <2>3, <2>4, <2>5, AnswerTruthful
  <2> QED
    BY <1>0, <2>1, <2>2, <2>6
<1> QED
  BY <1>1, <1>3, <1>4 DEF Finishing
-----------------------------------------------------------------------------
(* A caller that waits for another slot than r waits on. *)
LEMMA WaitsOn ==
  ASSUME RemoteInv, NEW r \in Requests, \A q \in Requests \ {r} : Same(q),
         NEW d \in Callers, cstage[d] = "wait", conn[d] # r
  PROVE  /\ conn[d] \in Requests \ gone'
         /\ stage'[conn[d]] # "idle"
         /\ req'[conn[d]] = RequestOf(asked[d])
<1>1. /\ conn[d] \in Requests \ gone /\ stage[conn[d]] # "idle"
      /\ req[conn[d]] = RequestOf(asked[d])
  BY DEF RemoteInv, NoCrossTalk
<1> QED
  BY <1>1 DEF Same

(* The slot that is found for a request has no other caller. *)
LEMMA InvConnect ==
  ASSUME RemoteInv, NEW c \in Callers, Connect(c)
  PROVE  RemoteInv' /\ OthersStay(c) /\ UNCHANGED <<asked, result, known, believed>>
<1>1. PICK r \in FreeSlot :
        ServeHTTP(r, RequestOf(asked[c])) /\ conn' = [conn EXCEPT ![c] = r]
  BY DEF Connect
<1>2. /\ cstage[c] = "send" /\ cstage' = [cstage EXCEPT ![c] = "wait"]
      /\ UNCHANGED <<processVars, asked, result, known, believed>>
  BY DEF Connect, Move
<1>3. r \in Requests /\ stage[r] = "idle" /\ r # NoConn
  BY RemoteAssumption DEF FreeSlot
<1>4. asked[c] \in Asked /\ RequestOf(asked[c]) \in Calls
  BY RequestFields DEF RemoteInv, ClientTypes
<1>5. SlotInv' /\ \A q \in Requests \ {r} : Same(q)
  BY <1>1, <1>3, <1>4, SlotInvStep DEF SlotStep, RemoteInv
<1>6. /\ req'[r] = RequestOf(asked[c]) /\ r \notin gone' /\ stage'[r] # "idle"
  <2>1. gone' = gone /\ req' = [req EXCEPT ![r] = RequestOf(asked[c])]
    BY <1>1 DEF ServeHTTP, apiVars
  <2>2. Enter(r, "decode") \/ Enter(r, "done")
    BY <1>1 DEF ServeHTTP
  <2>3. stage'[r] # "idle"
    BY <1>3, <2>2, EnterEffect DEF RemoteInv, SlotInv, ServerInv, Stages
  <2>4. r \notin gone
    BY <1>3 DEF RemoteInv, SlotInv, Kept, ServerInv, AtStage
  <2> QED
    BY <1>3, <2>1, <2>3, <2>4 DEF RemoteInv, SlotInv, ServerInv, CallTypes
<1>7. ClientTypes'
  BY <1>1, <1>2, <1>3
  DEF RemoteInv, ClientTypes, CallerStages, processVars, ProcessTypeOK
<1>8. OthersStay(c) /\ cstage'[c] = "wait" /\ conn'[c] = r
  BY <1>1, <1>2 DEF RemoteInv, ClientTypes, OthersStay
<1>9. \A d \in Callers : Caller(d)'
  <2>1. Caller(c)'
    BY <1>2, <1>3, <1>8 DEF RemoteInv, Caller, Known
  <2>2. \A d \in Callers \ {c} : Caller(d)'
    BY <1>8 DEF RemoteInv, OthersStay, Caller, Known
  <2> QED
    BY <2>1, <2>2
<1>10. ASSUME NEW d \in Callers, d # c
       PROVE  conn[d] # r /\ conn'[d] = conn[d] /\ cstage'[d] = cstage[d] /\ asked'[d] = asked[d]
  <2>1. conn[d] # r
    BY <1>3 DEF RemoteInv, Caller, NoCrossTalk
  <2> QED
    BY <1>8, <1>10, <2>1 DEF OthersStay
<1>11. NoCrossTalk'
  <2>1. ASSUME NEW d \in Callers, d # c, cstage'[d] = "wait"
        PROVE  /\ conn'[d] \in Requests \ gone' /\ stage'[conn'[d]] # "idle"
               /\ req'[conn'[d]] = RequestOf(asked'[d])
               /\ \A e \in Callers : conn'[e] = conn'[d] => e = d
    <3>1. cstage[d] = "wait" /\ conn[d] # r /\ conn'[d] = conn[d] /\ asked'[d] = asked[d]
      BY <1>10, <2>1
    <3>2. \A e \in Callers : conn[e] = conn[d] => e = d
      BY <3>1 DEF RemoteInv, NoCrossTalk
    <3>3. \A e \in Callers : conn'[e] = conn'[d] => e = d
      BY <1>8, <1>10, <3>1, <3>2
    <3> QED
      BY <1>3, <1>5, <3>1, <3>3, WaitsOn
  <2>2. \A e \in Callers : conn'[e] = conn'[c] => e = c
    BY <1>8, <1>10
  <2>3. asked'[c] = asked[c]
    BY <1>2
  <2> QED
    BY <1>3, <1>6, <1>8, <2>1, <2>2, <2>3 DEF NoCrossTalk
<1> QED
  BY <1>2, <1>5, <1>7, <1>8, <1>9, <1>11 DEF RemoteInv

(* The server works on, or drops a slot that nobody waits for. *)
LEMMA InvServer ==
  ASSUME RemoteInv, NEW r \in Requests, Server(r)
  PROVE  RemoteInv' /\ UNCHANGED clientVars
<1>1. UNCHANGED clientVars
  BY DEF Server
<1>2. /\ SlotStep(r) /\ UNCHANGED processVars
      /\ \/ stage'[r] # "idle" /\ req' = req /\ gone' = gone
         \/ ~Attached(r)
  <2>1. CASE Work(r)
    BY <2>1, WorkIsSlotStep DEF RemoteInv, processVars
  <2>2. CASE Abandoned(r)
    BY <2>2 DEF Abandoned, SlotStep
  <2> QED
    BY <2>1, <2>2 DEF Server
<1>3. SlotInv' /\ \A q \in Requests \ {r} : Same(q)
  BY <1>2, SlotInvStep DEF RemoteInv
<1>4. ClientTypes' /\ \A d \in Callers : Caller(d)'
  BY <1>1, <1>2
  DEF RemoteInv, clientVars, processVars, ClientTypes, ProcessTypeOK, Caller, Known
<1>5. ASSUME NEW d \in Callers, cstage[d] = "wait"
      PROVE  /\ conn[d] \in Requests \ gone' /\ stage'[conn[d]] # "idle"
             /\ req'[conn[d]] = RequestOf(asked[d])
  <2>1. CASE conn[d] # r
    BY <1>3, <1>5, <2>1, WaitsOn
  <2>2. CASE conn[d] = r
    BY <1>2, <1>5, <2>2 DEF Attached, RemoteInv, NoCrossTalk
  <2> QED
    BY <2>1, <2>2
<1>6. NoCrossTalk'
  BY <1>1, <1>5 DEF RemoteInv, NoCrossTalk, clientVars
<1> QED
  BY <1>1, <1>3, <1>4, <1>6 DEF RemoteInv

(* main and its goroutines touch neither. *)
LEMMA InvProcess ==
  ASSUME RemoteInv, Process
  PROVE  RemoteInv' /\ UNCHANGED clientVars
<1>1. UNCHANGED <<vars, clientVars>>
  BY DEF Process
<1>2. ProcessTypeOK'
  BY DEF Process, Main, Load, RunHandler, Listen, ProverRuns, Restart, Goto,
     ProcessTypeOK, Steps, Goroutine, RemoteInv, ClientTypes
<1>3. SlotInv'
  BY <1>1, SlotInvStays DEF RemoteInv
<1>4. ClientTypes' /\ \A d \in Callers : Caller(d)'
  BY <1>1, <1>2 DEF RemoteInv, clientVars, ClientTypes, Caller, Known
<1>5. NoCrossTalk'
  BY <1>1 DEF RemoteInv, NoCrossTalk, clientVars, vars, apiVars
<1> QED
  BY <1>1, <1>3, <1>4, <1>5 DEF RemoteInv

(* The end of the process leaves nobody waiting. *)
LEMMA InvProcessEnds ==
  ASSUME RemoteInv, ProcessEnds
  PROVE  RemoteInv' /\ UNCHANGED <<asked, result, known, believed>>
<1>1. /\ Exit /\ conn' = [c \in Callers |-> NoConn]
      /\ cstage' = [c \in Callers |-> IF cstage[c] = "wait" THEN "broken" ELSE cstage[c]]
      /\ UNCHANGED <<asked, result, attempts, known, believed>>
  BY DEF ProcessEnds
<1>2. SlotInv'
  BY <1>1, SlotInvExit
<1>3. ClientTypes'
  BY <1>1 DEF Exit, RemoteInv, ClientTypes, ProcessTypeOK, Steps, Goroutine, CallerStages
<1>4. \A d \in Callers : Caller(d)'
  BY <1>1 DEF RemoteInv, Caller, Known
<1>5. NoCrossTalk'
  BY <1>1 DEF NoCrossTalk
<1> QED
  BY <1>1, <1>2, <1>3, <1>4, <1>5 DEF RemoteInv
-----------------------------------------------------------------------------
(* Every step of callers, server and process keeps the invariant. *)
LEMMA RemoteInvStep == RemoteInv /\ [RemoteNext]_remoteVars => RemoteInv'
<1> SUFFICES ASSUME RemoteInv, [RemoteNext]_remoteVars
             PROVE  RemoteInv'
  OBVIOUS
<1>1. ASSUME NEW c \in Callers, Client(c) PROVE RemoteInv'
  <2>1. CASE Finishing(c)
    <3>1. PICK res : \E alike \in BOOLEAN :
            FinishWith(c, res, alike) /\ MayBeTold(asked[c], res, alike)
      BY <2>1, FinishingIsTruthful
    <3>2. PICK alike \in BOOLEAN :
            FinishWith(c, res, alike) /\ MayBeTold(asked[c], res, alike)
      BY <3>1
    <3>3. UNCHANGED serverVars /\ cstage[c] \in {"send", "wait", "broken"}
      BY <2>1, FinishingIsTruthful
    <3> QED
      BY <3>2, <3>3, FinishEffect
  <2> QED
    BY <1>1, <2>1, InvInvoke, InvConnect, InvBreakResend, InvReturn
    DEF Client, Progress, Finishing
<1>2. CASE UNCHANGED remoteVars
  <2>1. SlotInv'
    BY <1>2, SlotInvStays DEF RemoteInv, remoteVars
  <2>2. ClientTypes' /\ \A d \in Callers : Caller(d)'
    BY <1>2 DEF remoteVars, processVars, clientVars, RemoteInv, ClientTypes, ProcessTypeOK,
       Caller, Known
  <2>3. NoCrossTalk'
    BY <1>2 DEF remoteVars, vars, apiVars, clientVars, RemoteInv, NoCrossTalk
  <2> QED
    BY <2>1, <2>2, <2>3 DEF RemoteInv
<1> QED
  BY <1>1, <1>2, InvServer, InvProcess, InvProcessEnds DEF RemoteNext

(* So it always holds. *)
LEMMA RemoteInvariant == RemoteSpec => []RemoteInv
  BY RemoteInvInit, RemoteInvStep, PTL DEF RemoteSpec

(***************************************************************************)
(* With connections that break, requests that are sent again and a server  *)
(* that ends and starts at any time, a caller that waits is never served   *)
(* by a slot that has another's request.                                   *)
(***************************************************************************)
THEOREM AnswersReachTheirCallers == RemoteSpec => []NoCrossTalk
<1>1. RemoteInv => NoCrossTalk
  BY DEF RemoteInv
<1> QED
  BY <1>1, RemoteInvariant, PTL

(***************************************************************************)
(* And whatever a call of the client returns is true of the airdrop and of *)
(* the parameters it was made with, unless a look-alike of our answers was *)
(* returned: of what others answer, the client refuses all the rest.       *)
(***************************************************************************)
THEOREM CallersAreToldTheTruth == RemoteSpec => []InvocationTruthful
<1>1. RemoteInv => InvocationTruthful
  <2>1. ASSUME RemoteInv, NEW c \in Callers \ believed, cstage[c] = "done"
        PROVE  Truthful(asked[c], result[c])
    BY <2>1 DEF RemoteInv, Caller, MayBeTold
  <2> QED
    BY <2>1 DEF InvocationTruthful, Truthful
<1> QED
  BY <1>1, RemoteInvariant, PTL
-----------------------------------------------------------------------------
(***************************************************************************)
(* The refinement.  To ClaimApi a caller is what a request slot is to the  *)
(* service: its call begins with Invoke and its reply comes with Finish;   *)
(* what happens in between, to the connection or to the process, it does   *)
(* not see.                                                                *)
(***************************************************************************)
RPhase   == [c \in Callers |-> RemotePhase(c)]
ROp      == [c \in Callers |-> known[c].op]
RAccount == [c \in Callers |-> known[c].account]
RReply   == [c \in Callers |-> RemoteReply(c)]

(* A caller to whom nothing has happened looks the same to ClaimApi. *)
LEMMA OthersLookTheSame ==
  ASSUME NEW c \in Callers, OthersStay(c), NEW d \in Callers \ {c}
  PROVE  RPhase'[d] = RPhase[d] /\ ROp'[d] = ROp[d] /\ RAccount'[d] = RAccount[d]
         /\ RReply'[d] = RReply[d]
  BY DEF OthersStay, RPhase, ROp, RAccount, RReply, RemotePhase, RemoteReply, Known, ToldBad

(* What ClaimApi sees of a step of caller c. *)
LEMMA StepOfCaller ==
  ASSUME NEW c \in Callers, OthersStay(c)
  PROVE  /\ RPhase' = [RPhase EXCEPT ![c] = RPhase'[c]]
         /\ ROp' = [ROp EXCEPT ![c] = ROp'[c]]
         /\ RAccount' = [RAccount EXCEPT ![c] = RAccount'[c]]
         /\ RReply' = [RReply EXCEPT ![c] = RReply'[c]]
<1>1. \A d \in Callers \ {c} : /\ RPhase'[d] = RPhase[d] /\ ROp'[d] = ROp[d]
                               /\ RAccount'[d] = RAccount[d] /\ RReply'[d] = RReply[d]
  BY OthersLookTheSame
<1> QED
  BY <1>1 DEF RPhase, ROp, RAccount, RReply

(* A caller whose call has not returned has no reply yet. *)
LEMMA OnTheWay ==
  ASSUME NEW c \in Callers, cstage[c] \in {"send", "wait", "broken"}
  PROVE  /\ RPhase[c] = IF Known(asked[c]) THEN "serving" ELSE "idle"
         /\ RReply[c] = Api!NoReply
  BY DEF RPhase, RReply, RemotePhase, RemoteReply, ToldBad

(* The same of the next state. *)
LEMMA OnTheWayNext ==
  ASSUME NEW c \in Callers, cstage'[c] \in {"send", "wait", "broken"}
  PROVE  /\ RPhase'[c] = IF Known(asked'[c]) THEN "serving" ELSE "idle"
         /\ RReply'[c] = Api!NoReply
  BY DEF RPhase, RReply, RemotePhase, RemoteReply, ToldBad, Known

(* The state that ClaimApi sees. *)
Seen == <<RPhase, ROp, RAccount, RReply>>

(* ClaimApi sees nothing of a step that changes none of these. *)
LEMMA SeenIsRemoteVars == UNCHANGED Seen => UNCHANGED Remote!vars
  BY DEF Seen, RPhase, ROp, RAccount, RReply, Remote!vars

(* Initial states are initial states of ClaimApi. *)
LEMMA RemoteApiInit == RemoteInit => Remote!Init
  BY DEF RemoteInit, Remote!Init, Remote!Operations, Remote!NoReply, Api!NoReply,
     RemotePhase, RemoteReply

(* The call begins. *)
LEMMA InvokeIsCall ==
  ASSUME RemoteInv, NEW c \in Callers, Invoke(c)
  PROVE  Remote!Next \/ UNCHANGED Seen
<1>1. PICK a \in Questions :
        /\ asked' = [asked EXCEPT ![c] = a]
        /\ known' = IF Known(a)
                    THEN [known EXCEPT ![c] = [op |-> a.operation, account |-> a.address]]
                    ELSE known
  BY DEF Invoke
<1>2. cstage[c] = "idle" /\ cstage'[c] = "send" /\ asked'[c] = a
  BY <1>1 DEF Invoke, Move, RemoteInv, ClientTypes
<1>3. RPhase[c] = "idle" /\ RReply[c] = Api!NoReply
  BY <1>2 DEF RPhase, RReply, RemotePhase, RemoteReply
<1>4. RPhase'[c] = (IF Known(a) THEN "serving" ELSE "idle") /\ RReply'[c] = Api!NoReply
  BY <1>2, OnTheWayNext
<1>5. /\ RPhase' = [RPhase EXCEPT ![c] = RPhase'[c]] /\ ROp' = [ROp EXCEPT ![c] = ROp'[c]]
      /\ RAccount' = [RAccount EXCEPT ![c] = RAccount'[c]]
      /\ RReply' = [RReply EXCEPT ![c] = RReply'[c]]
  BY InvInvoke, StepOfCaller
<1>6. RReply' = RReply
  BY <1>3, <1>4, <1>5 DEF RReply
<1>7. CASE Known(a)
  <2>1. known'[c] = [op |-> a.operation, account |-> a.address]
    BY <1>1, <1>7 DEF RemoteInv, ClientTypes
  <2>2. ROp'[c] = a.operation /\ RAccount'[c] = a.address
    BY <2>1 DEF ROp, RAccount
  <2>3. a.operation \in Remote!Operations /\ a.address \in Accounts
    BY <1>7, RemoteAssumption, AskedFields DEF Known, Remote!Operations
  <2>4. Remote!Call(c, a.operation, a.address)
    BY <1>3, <1>4, <1>5, <1>6, <1>7, <2>2 DEF Remote!Call, RPhase, ROp, RAccount, RReply
  <2> QED
    BY <2>3, <2>4 DEF Remote!Next
<1>8. CASE ~Known(a)
  <2>1. RPhase' = RPhase
    BY <1>3, <1>4, <1>5, <1>8 DEF RPhase
  <2>2. ROp' = ROp /\ RAccount' = RAccount
    BY <1>1, <1>8 DEF ROp, RAccount
  <2> QED
    BY <1>6, <2>1, <2>2 DEF Seen
<1> QED
  BY <1>7, <1>8

(* The connection is found, breaks, or is looked for again: nothing is     *)
(* seen of it.                                                             *)
LEMMA TravelIsUnseen ==
  ASSUME RemoteInv, NEW c \in Callers, Connect(c) \/ Break(c) \/ Resend(c)
  PROVE  UNCHANGED Seen
<1>1. cstage[c] \in {"send", "wait", "broken"} /\ cstage'[c] \in {"send", "wait", "broken"}
  BY DEF Connect, Break, Resend, Move, RemoteInv, ClientTypes
<1>2. OthersStay(c) /\ UNCHANGED <<asked, known>>
  BY InvConnect, InvBreakResend
<1>3. RPhase'[c] = RPhase[c] /\ RReply'[c] = RReply[c]
  BY <1>1, <1>2, OnTheWay, OnTheWayNext
<1>4. /\ RPhase' = [RPhase EXCEPT ![c] = RPhase'[c]]
      /\ RReply' = [RReply EXCEPT ![c] = RReply'[c]]
  BY <1>2, StepOfCaller
<1>5. RPhase' = RPhase /\ RReply' = RReply
  BY <1>3, <1>4 DEF RPhase, RReply
<1>6. ROp' = ROp /\ RAccount' = RAccount
  BY <1>2 DEF ROp, RAccount
<1> QED
  BY <1>5, <1>6 DEF Seen

(* What a result looks like to ClaimApi. *)
ReplyOf(a, res, alike) ==
  IF alike THEN Api!Failure(500)
  ELSE CASE res.kind = "status" -> Api!Failure(res.code)
         [] res.kind = "error"  -> Api!Failure(500)
         [] OTHER -> [code |-> 200, owner |-> IF a.operation = "GetWalletInfo"
                                         THEN res.value.owner ELSE NoAccount]

(* What is true is a reply ClaimApi allows. *)
LEMMA TruthAllowed ==
  ASSUME NEW a \in Asked, Known(a), NEW res, NEW alike \in BOOLEAN, MayBeTold(a, res, alike)
  PROVE  ReplyOf(a, res, alike) \in Remote!Allowed(a.operation, a.address, FALSE)
<1>0. CASE alike
  BY <1>0 DEF ReplyOf, Api!Failure, Remote!Allowed, Remote!Failure
<1> SUFFICES ASSUME alike = FALSE
             PROVE  ReplyOf(a, res, FALSE) \in Remote!Allowed(a.operation, a.address, FALSE)
  BY <1>0
<1> Truthful(a, res)
  BY DEF MayBeTold
<1>1. /\ a.operation \in {"GetWalletInfo", "GetWallets"} /\ a.address \in Accounts
      /\ res.kind \in {"value", "status", "error"}
  BY AskedFields DEF Known, Truthful
<1>2. CASE res.kind = "error"
  BY <1>2 DEF ReplyOf, Api!Failure, Remote!Allowed, Remote!Failure
<1>3. CASE res.kind = "status"
  <2>1. /\ res.code \in {404, 500}
        /\ res.code = 404 => a.operation = "GetWalletInfo" /\ a.address \notin Airdrop
    BY <1>1, <1>3 DEF Truthful, TruthTold
  <2>2. ReplyOf(a, res, FALSE) = Remote!Failure(res.code)
    BY <1>3 DEF ReplyOf, Api!Failure, Remote!Failure
  <2>3. Remote!Failure(res.code) \in Remote!Allowed(a.operation, a.address, FALSE)
    BY <2>1 DEF Remote!Allowed, Remote!Failure
  <2> QED
    BY <2>2, <2>3, Zenon
<1>4. CASE res.kind = "value" /\ a.operation = "GetWalletInfo"
  <2>1. a.address \in Airdrop /\ res.value.owner = a.address
    BY <1>4 DEF Truthful, TruthTold, InfoOf
  <2>2. ReplyOf(a, res, FALSE) = [code |-> 200, owner |-> a.address]
    BY <1>4, <2>1 DEF ReplyOf
  <2> QED
    BY <1>4, <2>1, <2>2 DEF Remote!Allowed
<1>5. CASE res.kind = "value" /\ a.operation = "GetWallets"
  <2>1. ReplyOf(a, res, FALSE) = [code |-> 200, owner |-> NoAccount]
    BY <1>5 DEF ReplyOf
  <2> QED
    BY <1>5, <2>1 DEF Remote!Allowed
<1> QED
  BY <1>1, <1>2, <1>3, <1>4, <1>5

(* A caller that has its result. *)
LEMMA WhenDone ==
  ASSUME NEW c \in Callers, cstage[c] = "done"
  PROVE  /\ RPhase[c] = IF Known(asked[c]) \/ (result[c].kind = "status" /\ c \notin believed)
                       THEN "replied" ELSE "idle"
         /\ RReply[c] = IF Known(asked[c]) \/ (result[c].kind = "status" /\ c \notin believed)
                       THEN ReplyOf(asked[c], result[c], c \in believed) ELSE Api!NoReply
  BY DEF RPhase, RReply, RemotePhase, RemoteReply, ReplyOf, ToldBad

(* What ClaimApi sees of a caller that is done, in the next state. *)
LEMMA WhenDoneNext ==
  ASSUME NEW c \in Callers, cstage'[c] = "done"
  PROVE  /\ RPhase'[c] = IF Known(asked'[c]) \/ (result'[c].kind = "status" /\ c \notin believed')
                        THEN "replied" ELSE "idle"
         /\ RReply'[c] = IF Known(asked'[c]) \/ (result'[c].kind = "status" /\ c \notin believed')
                        THEN ReplyOf(asked'[c], result'[c], c \in believed') ELSE Api!NoReply
  BY DEF RPhase, RReply, RemotePhase, RemoteReply, ReplyOf, ToldBad, Known

(* The call ends with a reply that ClaimApi allows, or, without an account *)
(* id, with 400 or unseen.                                                 *)
LEMMA FinishIsAnswer ==
  ASSUME RemoteInv, NEW c \in Callers, NEW res, NEW alike \in BOOLEAN,
         cstage[c] \in {"send", "wait", "broken"},
         MayBeTold(asked[c], res, alike), FinishWith(c, res, alike), UNCHANGED serverVars
  PROVE  Remote!Next \/ UNCHANGED Seen
<1>1. /\ OthersStay(c) /\ cstage'[c] = "done" /\ result'[c] = res /\ (c \in believed') = alike
      /\ asked' = asked /\ known' = known
  BY FinishEffect
<1>2. /\ RPhase' = [RPhase EXCEPT ![c] = RPhase'[c]]
      /\ RReply' = [RReply EXCEPT ![c] = RReply'[c]]
  BY <1>1, StepOfCaller
<1>3. ROp' = ROp /\ RAccount' = RAccount
  BY <1>1 DEF ROp, RAccount
<1>4. /\ RPhase[c] = IF Known(asked[c]) THEN "serving" ELSE "idle"
      /\ RReply[c] = Api!NoReply
  BY OnTheWay
<1>5. /\ RPhase'[c] = IF Known(asked[c]) \/ (res.kind = "status" /\ ~alike) THEN "replied" ELSE "idle"
      /\ RReply'[c] = IF Known(asked[c]) \/ (res.kind = "status" /\ ~alike)
                     THEN ReplyOf(asked[c], res, alike) ELSE Api!NoReply
  BY <1>1, WhenDoneNext
<1>6. asked[c] \in Asked
  BY DEF RemoteInv, ClientTypes
<1>7. CASE Known(asked[c])
  <2>1. known[c] = [op |-> asked[c].operation, account |-> asked[c].address]
    BY <1>7 DEF RemoteInv, Caller
  <2>2. ROp[c] = asked[c].operation /\ RAccount[c] = asked[c].address
    BY <2>1 DEF ROp, RAccount
  <2>3. ReplyOf(asked[c], res, alike) \in Remote!Allowed(ROp[c], RAccount[c], c \in {})
    <3>1. ReplyOf(asked[c], res, alike) \in Remote!Allowed(asked[c].operation, asked[c].address, FALSE)
      BY <1>6, <1>7, TruthAllowed
    <3> QED
      BY <2>2, <3>1 DEF Remote!Allowed
  <2>4. /\ RPhase[c] = "serving" /\ RPhase' = [RPhase EXCEPT ![c] = "replied"]
        /\ RReply' = [RReply EXCEPT ![c] = ReplyOf(asked[c], res, alike)]
    BY <1>2, <1>4, <1>5, <1>7
  <2>5. \E rep \in Remote!Allowed(ROp[c], RAccount[c], c \in {}) :
          RReply' = [RReply EXCEPT ![c] = rep]
    BY <2>3, <2>4, Zenon
  <2>6. Remote!Answer(c)
    BY <1>3, <2>4, <2>5, Zenon DEF Remote!Answer, RPhase, ROp, RAccount, RReply
  <2> QED
    BY <2>6 DEF Remote!Next
<1>8. CASE ~Known(asked[c]) /\ res.kind = "status" /\ ~alike
  <2>1. res.code = 400
    BY <1>8 DEF MayBeTold, Truthful, Known
  <2>2. ReplyOf(asked[c], res, alike) = Remote!Failure(400)
    BY <1>8, <2>1 DEF ReplyOf, Api!Failure, Remote!Failure
  <2>3. /\ RPhase[c] = "idle" /\ RPhase' = [RPhase EXCEPT ![c] = "replied"]
        /\ RReply' = [RReply EXCEPT ![c] = Remote!Failure(400)]
    BY <1>2, <1>4, <1>5, <1>8, <2>2
  <2>4. Remote!BadCall(c)
    BY <1>3, <2>3 DEF Remote!BadCall, RPhase, ROp, RAccount, RReply
  <2> QED
    BY <2>4 DEF Remote!Next
<1>9. CASE ~Known(asked[c]) /\ ~(res.kind = "status" /\ ~alike)
  <2>1. RPhase'[c] = RPhase[c] /\ RReply'[c] = RReply[c]
    BY <1>4, <1>5, <1>9
  <2>2. RPhase' = RPhase /\ RReply' = RReply
    BY <1>2, <2>1 DEF RPhase, RReply
  <2> QED
    BY <1>3, <2>2 DEF Seen
<1> QED
  BY <1>7, <1>8, <1>9

(* The caller goes on with its result. *)
LEMMA ReturnIsRelease ==
  ASSUME RemoteInv, NEW c \in Callers, Return(c)
  PROVE  Remote!Next \/ UNCHANGED Seen
<1>1. cstage[c] = "done" /\ cstage'[c] = "idle" /\ known' = known
  BY DEF Return, Move, RemoteInv, ClientTypes
<1>2. RPhase'[c] = "idle" /\ RReply'[c] = Api!NoReply
  BY <1>1 DEF RPhase, RReply, RemotePhase, RemoteReply
<1>3. /\ RPhase' = [RPhase EXCEPT ![c] = RPhase'[c]]
      /\ RReply' = [RReply EXCEPT ![c] = RReply'[c]]
  BY InvReturn, StepOfCaller
<1>4. ROp' = ROp /\ RAccount' = RAccount
  BY <1>1 DEF ROp, RAccount
<1>5. CASE Known(asked[c]) \/ (result[c].kind = "status" /\ c \notin believed)
  <2>1. RPhase[c] = "replied"
    BY <1>1, <1>5, WhenDone
  <2>2. Remote!Release(c)
    BY <1>2, <1>3, <1>4, <2>1
    DEF Remote!Release, Remote!NoReply, Api!NoReply, RPhase, ROp, RAccount, RReply
  <2> QED
    BY <2>2 DEF Remote!Next
<1>6. CASE ~(Known(asked[c]) \/ (result[c].kind = "status" /\ c \notin believed))
  <2>1. RPhase[c] = "idle" /\ RReply[c] = Api!NoReply
    BY <1>1, <1>6, WhenDone
  <2>2. RPhase' = RPhase /\ RReply' = RReply
    BY <1>2, <1>3, <2>1 DEF RPhase, RReply
  <2> QED
    BY <1>4, <2>2 DEF Seen
<1> QED
  BY <1>5, <1>6

(* What the server and the process do is seen only in what callers return. *)
LEMMA ServerIsUnseen ==
  ASSUME UNCHANGED clientVars
  PROVE  UNCHANGED Seen
  BY DEF clientVars, Seen, RPhase, ROp, RAccount, RReply, RemotePhase, RemoteReply, Known, ToldBad

(* The end of the process is a stutter of ClaimApi. *)
LEMMA ProcessEndsUnseen ==
  ASSUME RemoteInv, ProcessEnds
  PROVE  UNCHANGED Seen
<1>1. UNCHANGED <<asked, result, known, believed>>
  BY InvProcessEnds
<1>2. cstage' = [c \in Callers |-> IF cstage[c] = "wait" THEN "broken" ELSE cstage[c]]
  BY DEF ProcessEnds
<1>3. ASSUME NEW c \in Callers
      PROVE  RPhase'[c] = RPhase[c] /\ RReply'[c] = RReply[c]
  <2>1. CASE cstage[c] \in {"send", "wait", "broken"}
    BY <1>1, <1>2, <2>1, OnTheWay, OnTheWayNext
  <2>2. CASE cstage[c] \notin {"send", "wait", "broken"}
    BY <1>1, <1>2, <2>2 DEF RPhase, RReply, RemotePhase, RemoteReply, Known, ToldBad
  <2> QED
    BY <2>1, <2>2
<1>4. RPhase' = RPhase /\ RReply' = RReply
  BY <1>3 DEF RPhase, RReply
<1>5. ROp' = ROp /\ RAccount' = RAccount
  BY <1>1 DEF ROp, RAccount
<1> QED
  BY <1>4, <1>5 DEF Seen

(* Every step is one of ClaimApi or a stutter. *)
LEMMA RemoteApiStep ==
  RemoteInv /\ [RemoteNext]_remoteVars => [Remote!Next]_(Remote!vars)
<1> SUFFICES ASSUME RemoteInv, [RemoteNext]_remoteVars
             PROVE  Remote!Next \/ UNCHANGED Seen
  BY SeenIsRemoteVars
<1>1. ASSUME NEW c \in Callers, Client(c)
      PROVE  Remote!Next \/ UNCHANGED Seen
  <2>1. CASE Finishing(c)
    <3>1. PICK res : \E alike \in BOOLEAN :
            FinishWith(c, res, alike) /\ MayBeTold(asked[c], res, alike)
      BY <2>1, FinishingIsTruthful
    <3>2. PICK alike \in BOOLEAN :
            FinishWith(c, res, alike) /\ MayBeTold(asked[c], res, alike)
      BY <3>1
    <3>3. UNCHANGED serverVars /\ cstage[c] \in {"send", "wait", "broken"}
      BY <2>1, FinishingIsTruthful
    <3> QED
      BY <3>2, <3>3, FinishIsAnswer
  <2> QED
    BY <1>1, <2>1, InvokeIsCall, TravelIsUnseen, ReturnIsRelease
    DEF Client, Progress, Finishing
<1>2. CASE UNCHANGED remoteVars
  BY <1>2, ServerIsUnseen DEF remoteVars
<1> QED
  BY <1>1, <1>2, InvServer, InvProcess, ServerIsUnseen, ProcessEndsUnseen DEF RemoteNext

(***************************************************************************)
(* Seen from its callers, the generated client with the network and the    *)
(* process behind it is a Handler as the service is one: every call that   *)
(* returns, returns what ClaimApi allows.                                  *)
(***************************************************************************)
THEOREM ClientIsHandler == RemoteSpec => ClientImplementsApi
  BY RemoteApiInit, RemoteInvariant, RemoteApiStep, PTL
  DEF RemoteSpec, ClientImplementsApi, Remote!Spec
-----------------------------------------------------------------------------
(***************************************************************************)
(* The bound on requests: each that a server has received, or may still    *)
(* receive, was sent.                                                      *)
(***************************************************************************)
Senders == { c \in Callers : cstage[c] = "send" }

SendInv ==
  /\ attempts \in 0..MaxCalls
  /\ calls \in Nat
  /\ calls + Cardinality(Senders) <= attempts

(* The callers about to send can be counted. *)
LEMMA SendersFinite == IsFiniteSet(Senders) /\ Cardinality(Senders) \in Nat
<1>1. Senders \in SUBSET Callers
  BY DEF Senders
<1> QED
  BY <1>1, FS_Subset, FS_CardinalityType, RemoteAssumption

(* One caller more, or one less. *)
LEMMA SendersMove ==
  ASSUME cstage \in [Callers -> CallerStages],
         NEW c \in Callers, NEW s, cstage' = [cstage EXCEPT ![c] = s]
  PROVE  /\ Cardinality(Senders') \in Nat
         /\ s = "send" /\ cstage[c] # "send" => Cardinality(Senders') = Cardinality(Senders) + 1
         /\ s # "send" /\ cstage[c] = "send" => Cardinality(Senders') = Cardinality(Senders) - 1
         /\ s # "send" /\ cstage[c] # "send" => Cardinality(Senders') = Cardinality(Senders)
<1>1. CASE s = "send"
  <2>1. Senders' = Senders \cup {c}
    BY <1>1 DEF Senders
  <2>2. c \in Senders <=> cstage[c] = "send"
    BY DEF Senders
  <2>3. /\ Cardinality(Senders \cup {c}) =
             IF c \in Senders THEN Cardinality(Senders) ELSE Cardinality(Senders) + 1
    BY SendersFinite, FS_AddElement
  <2> QED
    BY <1>1, <2>1, <2>2, <2>3, SendersFinite
<1>2. CASE s # "send"
  <2>1. Senders' = Senders \ {c}
    BY <1>2 DEF Senders
  <2>2. c \in Senders <=> cstage[c] = "send"
    BY DEF Senders
  <2>3. /\ IsFiniteSet(Senders \ {c})
        /\ Cardinality(Senders \ {c}) =
             IF c \in Senders THEN Cardinality(Senders) - 1 ELSE Cardinality(Senders)
    BY SendersFinite, FS_RemoveElement
  <2>4. Cardinality(Senders') \in Nat
    BY <2>1, <2>3, FS_CardinalityType
  <2> QED
    BY <1>2, <2>1, <2>2, <2>3, <2>4
<1> QED
  BY <1>1, <1>2

(* Nothing is sent at first. *)
LEMMA SendInvInit == RemoteInit => SendInv
<1> SUFFICES ASSUME RemoteInit PROVE SendInv
  OBVIOUS
<1>1. Senders = {}
  BY DEF RemoteInit, Senders
<1> QED
  BY <1>1, FS_EmptySet, ServerAssumption DEF RemoteInit, Init, SendInv

(* No step of a caller sends more than was counted ... *)
LEMMA SendInvClient ==
  ASSUME RemoteInv, SendInv, NEW c \in Callers, Client(c)
  PROVE  SendInv'
<1> USE DEF SendInv
<1>0. cstage \in [Callers -> CallerStages] /\ Cardinality(Senders) \in Nat
  BY SendersFinite DEF RemoteInv, ClientTypes
<1>1. CASE Invoke(c) \/ Resend(c)
  <2>1. /\ cstage' = [cstage EXCEPT ![c] = "send"] /\ cstage[c] # "send"
        /\ attempts < MaxCalls /\ attempts' = attempts + 1 /\ calls' = calls
    BY <1>1 DEF Invoke, Resend, Move, serverVars, vars, countVars
  <2>2. Cardinality(Senders') = Cardinality(Senders) + 1
    BY <1>0, <2>1, SendersMove
  <2> QED
    BY <1>0, <2>1, <2>2, ServerAssumption
<1>2. CASE Connect(c)
  <2>1. /\ cstage' = [cstage EXCEPT ![c] = "wait"] /\ cstage[c] = "send"
        /\ attempts' = attempts /\ calls' = calls + 1
    BY <1>2 DEF Connect, Move, ServeHTTP
  <2>2. PICK s : s # "send" /\ cstage' = [cstage EXCEPT ![c] = s]
    BY <2>1
  <2>3. Cardinality(Senders') = Cardinality(Senders) - 1
    BY <1>0, <2>1, <2>2, SendersMove
  <2> QED
    BY <1>0, <2>1, <2>3
<1>3. CASE Finishing(c) \/ Break(c) \/ Return(c)
  <2>1. /\ \E s : s # "send" /\ cstage' = [cstage EXCEPT ![c] = s]
        /\ attempts' = attempts /\ calls' = calls
    BY <1>3 DEF Finishing, Refused, Receive, Intercept, DoFails, GiveUp, Finish, Break, Return,
       Move, serverVars, vars, countVars
  <2>2. Cardinality(Senders') \in { Cardinality(Senders), Cardinality(Senders) - 1 }
    BY <1>0, <2>1, SendersMove
  <2> QED
    BY <1>0, <2>1, <2>2
<1> QED
  BY <1>1, <1>2, <1>3 DEF Client, Progress, Finishing

(* ... nor does any other step. *)
LEMMA SendInvStep == RemoteInv /\ SendInv /\ [RemoteNext]_remoteVars => SendInv'
<1> SUFFICES ASSUME RemoteInv, SendInv, [RemoteNext]_remoteVars
             PROVE  SendInv'
  OBVIOUS
<1>1. ASSUME UNCHANGED <<cstage, attempts, calls>> PROVE SendInv'
  BY <1>1 DEF SendInv, Senders
<1>2. ASSUME NEW r \in Requests, Server(r) PROVE UNCHANGED <<cstage, attempts, calls>>
  <2>1. CASE Work(r)
    BY <1>2, <2>1, WorkIsSlotStep DEF Server, RemoteInv, clientVars
  <2>2. CASE Abandoned(r)
    BY <1>2, <2>2 DEF Server, Abandoned, Leave, Release, clientVars, countVars
  <2> QED
    BY <1>2, <2>1, <2>2 DEF Server
<1>3. CASE Process \/ UNCHANGED remoteVars
  BY <1>1, <1>3 DEF Process, remoteVars, vars, countVars, clientVars
<1>4. CASE ProcessEnds
  <2>1. attempts' = attempts /\ calls' = calls
    BY <1>4 DEF ProcessEnds, Exit
  <2>2. Senders' = Senders
    BY <1>4 DEF ProcessEnds, Senders
  <2> QED
    BY <2>1, <2>2 DEF SendInv
<1> QED
  BY <1>1, <1>2, <1>3, <1>4, SendInvClient DEF RemoteNext

(* Every variable of the callers and of the process keeps its type, a      *)
(* caller has a slot exactly while it waits, and no request is received    *)
(* that was not sent.                                                      *)
THEOREM RemoteTypeCorrect == RemoteSpec => []RemoteTypeOK
<1>1. ASSUME RemoteInv, SendInv PROVE RemoteTypeOK
  <2>1. \A c \in Callers : result[c].kind \in {"none", "value", "status", "error"}
    <3>1. ASSUME NEW c \in Callers, cstage[c] = "done"
          PROVE  result[c].kind \in {"value", "status", "error"}
      BY <1>1, <3>1 DEF RemoteInv, Caller, MayBeTold, Truthful
    <3>2. ASSUME NEW c \in Callers, cstage[c] # "done" PROVE result[c].kind = "none"
      <4>1. result[c] = NoResult
        BY <1>1, <3>2 DEF RemoteInv, Caller
      <4>2. NoResult.kind = "none"
        BY DEF NoResult
      <4> QED
        BY <4>1, <4>2
    <3> QED
      BY <3>1, <3>2
  <2>2. \A c \in Callers : conn[c] # NoConn <=> cstage[c] = "wait"
    BY <1>1 DEF RemoteInv, Caller
  <2>3. \A c \in believed : c \in Callers /\ cstage[c] = "done"
    BY <1>1 DEF RemoteInv, ClientTypes, Caller
  <2> QED
    BY <1>1, <2>1, <2>2, <2>3 DEF RemoteInv, ClientTypes, SendInv, Senders, RemoteTypeOK
<1> QED
  BY <1>1, RemoteInvInit, RemoteInvStep, SendInvInit, SendInvStep, PTL DEF RemoteSpec
=============================================================================
