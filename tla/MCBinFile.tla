----------------------------- MODULE MCBinFile ------------------------------
(* Zkeys of three coefficients and witnesses of two values, with their      *)
(* sections in different orders; one size of the table damaged; one section *)
(* more or less announced; the file cut or followed by other bytes.         *)
EXTENDS BinFile

(* 244 is 2^32 - 12, scaled: the size of a coefficient wraps to 0.  A      *)
(* section of 283 bytes holds a header of such numbers.                     *)
MCGarbage == {1, 64, 244}
MCLost == {[id |-> 1, size |-> 4], [id |-> 2, size |-> 1], [id |-> 2, size |-> 283]}

(* 6 bytes for an element of one field, 1 for one of the other. *)
Payload == [i \in 0 .. 9 |->
  CASE i = 1 -> 4 [] i = 2 -> 4 + 6 + 4 + 1 + 12 + 18 * 6 [] i = 4 -> 4 + 3 * 13 [] OTHER -> 5]
ZkeyNumber ==
  [protocol |-> 1, n8q |-> 6, n8r |-> 1, nVars |-> 5, nPublic |-> 2, domainSize |-> 4, nCoefs |-> 3]
WtnsNumber == [n8 |-> 1, nVars |-> 2]

ZkeyOrders == {<<1, 2, 4, 5, 6, 7, 8, 9>>, <<4, 1, 2>>, <<5, 4, 2, 1>>}
WtnsOrders == {<<1, 2>>, <<2, 1>>, <<1>>}

ZkeySections(o) == [k \in DOMAIN o |-> [id |-> o[k], size |-> Payload[o[k]], len |-> Payload[o[k]]]]
WtnsSections(o) ==
  [k \in DOMAIN o |-> LET n == IF o[k] = 1 THEN 9 ELSE 2 IN [id |-> o[k], size |-> n, len |-> n]]

(* The size of one section of the table damaged, or none. *)
Damaged(t) ==
  {t} \cup {[t EXCEPT ![k].size = n] : k \in DOMAIN t, n \in {0, 4, 7, 150, 2000}}
      \cup {[t EXCEPT ![k].size = @ + 12] : k \in DOMAIN t}
      \cup {[t EXCEPT ![k].size = @ - 1] : k \in DOMAIN t}
      \cup {[t EXCEPT ![k].size = 2048 - 30] : k \in DOMAIN t}

Total(t) ==
  LET sum[k \in 0 .. Len(t)] == IF k = 0 THEN 12 ELSE sum[k - 1] + 12 + t[k].len IN sum[Len(t)]

Made(type, version, numbers, t) ==
  {[type |-> type, version |-> version, nSections |-> n, sections |-> t, length |-> l,
    number |-> numbers] :
     n \in {Len(t) - 1, Len(t), Len(t) + 1},
     l \in {11, 12 + 12 * Len(t), Total(t) - 1, Total(t), Total(t) + 13, Total(t) + 300}}

MCFiles ==
  UNION {Made("zkey", 1, ZkeyNumber, t) :
           t \in UNION {Damaged(ZkeySections(o)) : o \in ZkeyOrders}}
    \cup UNION {Made("wtns", 2, WtnsNumber, t) :
                   t \in UNION {Damaged(WtnsSections(o)) : o \in WtnsOrders}}
    \cup Made("zkey", 1, [ZkeyNumber EXCEPT !.protocol = 2], ZkeySections(<<1, 2, 4>>))
    \cup Made("zkey", 2, ZkeyNumber, ZkeySections(<<1, 2, 4>>))
=============================================================================
