-------------------------- MODULE EstatsValueProofs --------------------------
(***************************************************************************)
(* For values of every width (each at least twice as wide as the one       *)
(* before, and 64 bits a multiple of 32): a number that the types on its   *)
(* way can hold is never lost, none that 32 bits hold is cut to 16 or 8    *)
(* bits but by estats_value_as_octet, and comparing and subtracting agree. *)
(***************************************************************************)
EXTENDS EstatsValue, SequenceTheorems, FiniteSetTheorems, WellFoundedInduction, TLAPS

Texts == Addr \cup {Junk}

\* What a number that was 2^31 or more may become on its way: no less than 2^31 again,
\* in the upper part of 64 bits, or negative.
Far == (-H32)..(-1) \cup H32..(M32 - 1) \cup (M64 - H32)..(M64 - 1)

\* How a conversion that succeeded, or failed, took datum d to e, for a type of room m.
Carried(d, e, ok, m) ==
    /\ d \in Texts => e = d
    /\ d \in Nat /\ (ok => d < m) => e = d
    /\ d \in 0..(H32 - 1) => e = d \/ (e = 0 /\ d \in {M8, M16})
    /\ d \in Far => e \in Far

Kept(d) == InRange(d) \/ d \in Far

\* d is what may have become of the value that was made.
Held(d) ==
    /\ orig # NoValue
    /\ Survives(d)
    /\ orig.data \in 0..(M32 - 1) => Kept(d)

\* The bytes in the variable are of its type.
Put ==
    buf # NoValue =>
        buf.data \in IF buf.type = "INET_ADDRESS" THEN Addr ELSE Data[ValueType(buf.type)]

AnswerTrue ==
    val # NoValue /\ answer # NoValue /\ Reads(orig.data)
    /\ orig.data \in 0..(Lesser(narrow, Room(answer.type)) - 1) => answer.data = orig.data

\* An answer in 16 bits is in range, and one in 8 bits is the low byte of one.
AnswerChecked ==
    val # NoValue /\ answer # NoValue /\ orig.data \in 0..(M32 - 1) =>
      /\ answer.type = "UINT16" => InRange(answer.data)
      /\ answer.type = "OCTET" => \E d \in 0..(M16 - 1) : InRange(d) /\ answer.data = d % M8

NoAnswer == val = NoValue => answer = NoValue

VInv ==
    /\ TypeOK /\ Put /\ AnswerTrue /\ AnswerChecked /\ NoAnswer
    /\ val # NoValue => buf = NoValue /\ Held(val.data)
    /\ buf # NoValue => Held(buf.data)

LEMMA ModSmall ==
    ASSUME NEW M \in Nat \ {0}, NEW a \in 0..(M - 1)
    PROVE  a % M = a
OBVIOUS

LEMMA ModBounds ==
    ASSUME NEW M \in Nat \ {0}, NEW a \in Int
    PROVE  a % M \in 0..(M - 1)
OBVIOUS

LEMMA ModMultiple ==
    ASSUME NEW M \in Nat \ {0}, NEW q \in Int, NEW r \in 0..(M - 1)
    PROVE  (q * M + r) % M = r
OBVIOUS

LEMMA Divides ==
    ASSUME NEW M \in Nat \ {0}, NEW a \in Int, a % M = 0
    PROVE  \E q \in Int : a = q * M
<1>1. a = M * (a \div M) + (a % M) /\ a \div M \in Int
  OBVIOUS
<1>2. a = (a \div M) * M
  BY <1>1
<1> QED
  BY <1>1, <1>2

\* The remainder of what lies x below a multiple.
LEMMA ModBelow ==
    ASSUME NEW M \in Nat \ {0}, NEW q \in Int, NEW x \in 1..M
    PROVE  (q * M - x) % M = M - x
<1>1. (q - 1) * M + (M - x) = q * M - x
  OBVIOUS
<1>2. q - 1 \in Int /\ M - x \in 0..(M - 1)
  OBVIOUS
<1> QED
  BY <1>1, <1>2, ModMultiple

LEMMA Widths ==
    /\ M8 \in Nat \ {0} /\ M16 \in Nat \ {0} /\ H32 \in Nat \ {0} /\ M32 \in Nat \ {0}
    /\ H64 \in Nat \ {0} /\ M64 \in Nat \ {0} /\ TextBound \in Nat \ {0}
    /\ M8 < M16 /\ M16 < H32 /\ M32 = 2 * H32 /\ M32 < H64 /\ M64 = 2 * H64
    /\ M64 <= TextBound
    /\ \E q \in Int : H64 = q * M32
<1>1. /\ M8 \in Nat \ {0} /\ M16 \in Nat \ {0} /\ H32 \in Nat \ {0}
      /\ H64 \in Nat \ {0} /\ TextBound \in Nat \ {0}
      /\ M8 < M16 /\ M16 < H32 /\ M32 < H64 /\ M64 <= TextBound /\ H64 % M32 = 0
  BY ValueAssumption DEF ValueAssumption
<1>2. M32 \in Nat \ {0} /\ M64 \in Nat \ {0} /\ M32 = 2 * H32 /\ M64 = 2 * H64
  BY <1>1 DEF M32, M64
<1>3. \E q \in Int : H64 = q * M32
  <2> HIDE DEF M32
  <2> QED
    BY <1>1, <1>2, Divides
<1> QED
  BY <1>1, <1>2, <1>3

\* What lies x below 2^64, or below 2^63, at 32 bits.
LEMMA LowOfHigh ==
    ASSUME NEW x \in 1..M32
    PROVE  (M64 - x) % M32 = M32 - x /\ (H64 + H32 - x) % M32 =
               IF x <= H32 THEN H32 - x ELSE H32 - x + M32
<1>1. PICK q \in Int : H64 = q * M32
  BY Widths
<1>2. M64 - x = (2 * q) * M32 - x
  BY <1>1, Widths
<1>3. (M64 - x) % M32 = M32 - x
  <2>1. M32 \in Nat \ {0} /\ 2 * q \in Int
    BY Widths
  <2>2. ((2 * q) * M32 - x) % M32 = M32 - x
    BY <2>1, ModBelow
  <2> QED
    BY <1>2, <2>2
<1>4. CASE x <= H32
  <2>1. H64 + H32 - x = q * M32 + (H32 - x) /\ H32 - x \in 0..(M32 - 1)
    BY <1>1, <1>4, Widths
  <2> QED
    BY <1>3, <1>4, <2>1, Widths, ModMultiple
<1>5. CASE ~(x <= H32)
  <2>1. H64 + H32 - x = q * M32 - (x - H32) /\ x - H32 \in 1..M32
    BY <1>1, <1>5, Widths
  <2>2. (H64 + H32 - x) % M32 = M32 - (x - H32)
    <3>1. M32 \in Nat \ {0}
      BY Widths
    <3>2. (q * M32 - (x - H32)) % M32 = M32 - (x - H32)
      BY <2>1, <3>1, ModBelow
    <3> QED
      BY <2>1, <3>2
  <2> QED
    BY <1>3, <1>5, <2>2, Widths
<1> QED
  BY <1>4, <1>5

LEMMA TextFacts == Texts \cap Int = {} /\ Addr4 \cap Addr6 = {} /\ Addr = Addr4 \cup Addr6
                       /\ \A d : Reads(d) <=> d \notin Texts
BY ValueAssumption, DataAssumption DEF ValueAssumption, DataAssumption, Addr, Texts, Reads

LEMMA DataFacts ==
    /\ Data["OCTET"] = 0..(M8 - 1) /\ Data["UINT16"] = 0..(M16 - 1)
    /\ Data["INT32"] = (-H32)..(H32 - 1) /\ Data["UINT32"] = 0..(M32 - 1)
    /\ Data["UINT64"] = 0..(M64 - 1) /\ Data["STRING"] = (-TextBound)..TextBound \cup Texts
    /\ Data["IP4ADDR"] = Addr4 /\ Data["IP6ADDR"] = Addr6
BY DEF Data, Texts

LEMMA RoomFacts ==
    /\ Room("OCTET") = M8 /\ Room("UINT16") = M16 /\ Room("INT32") = H32
    /\ Room("UINT32") = M32 /\ Room("UINT64") = M64 /\ Room("STRING") = M64
    /\ \A t : Room(t) \in {M8, M16, H32, M32, M64} /\ Room(t) \in Nat
BY Widths DEF Room

LEMMA ValueFacts ==
    /\ \A t \in Type : \A d \in Data[t] :
          Val(t, d) \in Value /\ Val(t, d).type = t /\ Val(t, d).data = d
    /\ \A v \in Value : v.type \in Type /\ v.data \in Data[v.type] /\ v = Val(v.type, v.data)
BY DEF Value, Val

\* A sum at 32 bits, with its sign.
LEMMA Low32Facts ==
    /\ \A n \in Int : Low32(n) \in (-H32)..(H32 - 1)
    /\ \A n \in (-H32)..(H32 - 1) : Low32(n) = n
    /\ \A n \in H32..(M32 - 1) : Low32(n) = n - M32
    /\ Low32(H64 - 1) = -1
<1>1. ASSUME NEW n \in Int
      PROVE  Low32(n) \in (-H32)..(H32 - 1)
  <2>1. (n + H32) % M32 \in 0..(M32 - 1)
    BY Widths, ModBounds
  <2> QED
    BY <2>1, Widths DEF Low32
<1>2. ASSUME NEW n \in (-H32)..(H32 - 1)
      PROVE  Low32(n) = n
  <2>1. n + H32 \in 0..(M32 - 1)
    BY Widths
  <2>2. (n + H32) % M32 = n + H32
    BY <2>1, Widths, ModSmall
  <2> QED
    BY <2>2, Widths DEF Low32
<1>3. ASSUME NEW n \in H32..(M32 - 1)
      PROVE  Low32(n) = n - M32
  <2>1. n + H32 = 1 * M32 + (n - H32) /\ n - H32 \in 0..(M32 - 1)
    BY Widths
  <2>2. (n + H32) % M32 = n - H32
    BY <2>1, Widths, ModMultiple
  <2> QED
    BY <2>2, Widths DEF Low32
<1>4. Low32(H64 - 1) = -1
  <2>1. 1 \in 1..M32 /\ 1 <= H32 /\ H64 + H32 - 1 = H64 - 1 + H32
    BY Widths
  <2>2. (H64 - 1 + H32) % M32 = H32 - 1
    BY <2>1, LowOfHigh
  <2> QED
    BY <2>2, Widths DEF Low32
<1> QED
  BY <1>1, <1>2, <1>3, <1>4

LEMMA StrtoulFacts ==
    /\ \A n \in Int : Strtoul(n) \in 0..(M64 - 1)
    /\ \A n \in 0..(M64 - 1) : Strtoul(n) = n
    /\ \A n \in (-H32)..(-1) : Strtoul(n) = M64 + n
<1>1. ASSUME NEW n \in Int
      PROVE  Strtoul(n) \in 0..(M64 - 1)
  <2>1. n % M64 \in 0..(M64 - 1) /\ M64 - 1 \in 0..(M64 - 1)
    BY Widths, ModBounds
  <2> QED
    BY <2>1 DEF Strtoul
<1>2. ASSUME NEW n \in 0..(M64 - 1)
      PROVE  Strtoul(n) = n
  <2>1. n % M64 = n /\ ~(n >= M64) /\ ~(n <= -M64)
    BY Widths, ModSmall
  <2> QED
    BY <2>1 DEF Strtoul
<1>3. ASSUME NEW n \in (-H32)..(-1)
      PROVE  Strtoul(n) = M64 + n
  <2>1. n = (-1) * M64 + (M64 + n) /\ M64 + n \in 0..(M64 - 1)
    BY Widths
  <2>2. n % M64 = M64 + n
    BY <2>1, Widths, ModMultiple
  <2>3. ~(n >= M64) /\ ~(n <= -M64)
    BY Widths
  <2> QED
    BY <2>2, <2>3 DEF Strtoul
<1> QED
  BY <1>1, <1>2, <1>3

LEMMA StrtolFacts ==
    /\ \A n \in Int : Strtol(n) \in Int
    /\ \A n \in (-H64)..(H64 - 1) : Strtol(n) = n
    /\ \A n \in H64..(M64 - 1) : Strtol(n) = H64 - 1
BY Widths DEF Strtol

\* Printing keeps a number, except that the sign of an INT32 may be lost.
LEMMA PrintedFacts ==
    ASSUME NEW v \in Value
    PROVE  /\ Printed(v) \in Data["STRING"]
           /\ Carried(v.data, Printed(v), FALSE, 0)
           /\ v.type = "STRING" => Val("STRING", Printed(v)) = v
<1>1. v.type \in Type /\ v.data \in Data[v.type] /\ v = Val(v.type, v.data)
  BY ValueFacts
<1>2. CASE v.type = "INT32" /\ ~signs
  <2>1. v.data \in (-H32)..(H32 - 1) /\ Printed(v) = v.data % M32
    BY <1>1, <1>2, DataFacts DEF Printed
  <2>2. v.data \in 0..(H32 - 1) => v.data % M32 = v.data
    <3> SUFFICES ASSUME v.data \in 0..(H32 - 1)
                 PROVE  v.data % M32 = v.data
      OBVIOUS
    <3>1. v.data \in 0..(M32 - 1) /\ M32 \in Nat \ {0}
      BY Widths
    <3> QED
      BY <3>1, ModSmall
  <2>3. v.data < 0 => v.data % M32 = v.data + M32
    <3> SUFFICES ASSUME v.data < 0
                 PROVE  v.data % M32 = v.data + M32
      OBVIOUS
    <3>1. v.data = (-1) * M32 + (v.data + M32) /\ v.data + M32 \in 0..(M32 - 1)
      BY <2>1, Widths
    <3> QED
      BY <3>1, Widths, ModMultiple
  <2>4. v.data < 0 => v.data + M32 \in H32..(M32 - 1)
    BY <2>1, Widths
  <2>5. Printed(v) \in 0..(M32 - 1)
    BY <2>1, <2>2, <2>3, <2>4, Widths
  <2>6. v.data \notin Texts /\ v.type # "STRING"
    BY <1>2, <2>1, TextFacts
  <2>7. v.data \in Far => Printed(v) \in Far
    <3>1. v.data \in Far => v.data < 0
      BY <2>1, Widths DEF Far
    <3> QED
      BY <2>1, <2>3, <2>4, <3>1 DEF Far
  <2>8. v.data \in Nat => Printed(v) = v.data
    BY <2>1, <2>2
  <2>9. 0..(H32 - 1) \subseteq Nat
    OBVIOUS
  <2> QED
    BY <2>5, <2>6, <2>7, <2>8, <2>9, DataFacts, Widths DEF Carried
<1>3. CASE ~(v.type = "INT32" /\ ~signs)
  <2>1. Printed(v) = v.data
    BY <1>3 DEF Printed
  <2>2. v.data \in Data["STRING"]
    <3>1. v.type \in {"OCTET", "UINT16", "INT32", "UINT32", "UINT64"} =>
              v.data \in (-TextBound)..TextBound
      BY <1>1, DataFacts, Widths
    <3>2. v.type \in {"IP4ADDR", "IP6ADDR"} => v.data \in Texts
      BY <1>1, DataFacts DEF Texts, Addr
    <3> QED
      BY <1>1, <3>1, <3>2, DataFacts DEF Type, Number
  <2> QED
    BY <1>1, <2>1, <2>2 DEF Carried
<1> QED
  BY <1>2, <1>3

\* The outcome r of parsing d as a value of type t is right.
Parsed(d, t, r) ==
    /\ r.err \in {"OK", "LIBC", "RANGE", "STRING_CONVERSION"}
    /\ r.err # "OK" => r.val = Val("STRING", d)
    /\ r.err = "OK" => /\ r.val.data \in Data[t] /\ r.val = Val(t, r.val.data)
                       /\ Carried(d, r.val.data, TRUE, Room(t))

LEMMA ParsedDone ==
    ASSUME NEW d, NEW t, NEW e \in Data[t], Carried(d, e, TRUE, Room(t))
    PROVE  Parsed(d, t, Done(Val(t, e)))
<1>1. Done(Val(t, e)).err = "OK" /\ Done(Val(t, e)).val = Val(t, e) /\ Val(t, e).data = e
  BY DEF Done, Val
<1> QED
  BY <1>1 DEF Parsed

LEMMA ParsedFailed ==
    ASSUME NEW d, NEW t, NEW x \in {"LIBC", "RANGE", "STRING_CONVERSION"}
    PROVE  Parsed(d, t, Failed(Val("STRING", d), x))
<1>1. Failed(Val("STRING", d), x).err = x /\ Failed(Val("STRING", d), x).val = Val("STRING", d)
  BY DEF Failed
<1> QED
  BY <1>1 DEF Parsed

\* Parsing refuses, or keeps what fits.
LEMMA ParseFacts ==
    ASSUME NEW d \in Data["STRING"], NEW t \in Type \ {"STRING"}
    PROVE  Parsed(d, t, Parse(Val("STRING", d), t))
<1> DEFINE w == Val("STRING", d)
           n == Strtoul(d)
           r == Parse(w, t)
<1> SUFFICES Parsed(d, t, r)
  OBVIOUS
<1>0. r = Parse(w, t)
  OBVIOUS
<1>1. w.data = d
  BY DEF Val
<1> HIDE DEF w, r
<1>3. CASE t \in {"IP4ADDR", "IP6ADDR"}
  <2>1. CASE d \in Data[t]
    <3>1. r = Done(Val(t, d))
      BY <1>0, <1>1, <1>3, <2>1 DEF Parse
    <3>2. d \in Texts
      BY <1>3, <2>1, DataFacts DEF Texts, Addr
    <3>3. Carried(d, d, TRUE, Room(t))
      BY <3>2 DEF Carried
    <3> QED
      BY <2>1, <3>1, <3>3, ParsedDone
  <2>2. CASE d \notin Data[t]
    <3>1. r = Failed(w, "LIBC")
      BY <1>0, <1>1, <1>3, <2>2 DEF Parse
    <3> QED
      BY <3>1, ParsedFailed DEF w
  <2> QED
    BY <2>1, <2>2
<1>4. CASE t \notin {"IP4ADDR", "IP6ADDR"} /\ ~Reads(d)
  <2>1. r = Failed(w, "STRING_CONVERSION")
    BY <1>0, <1>1, <1>4 DEF Parse
  <2> QED
    BY <2>1, ParsedFailed DEF w
<1>5. CASE t \in Number /\ Reads(d)
  <2>1. d \in Int /\ d \notin Texts
    BY <1>5, TextFacts, DataFacts, Widths
  <2>2. n \in 0..(M64 - 1) /\ (d \in 0..(M64 - 1) => n = d)
        /\ (d \in (-H32)..(-1) => n = M64 + d)
    BY <2>1, StrtoulFacts
  <2>3. d \in Far => n \in H32..(M32 - 1) \cup (M64 - H32)..(M64 - 1)
    BY <2>1, <2>2, Widths DEF Far
  <2> HIDE DEF n
  <2>4. CASE t = "UINT16"
    <3>1. r = IF n > M16 THEN Failed(w, "RANGE") ELSE Done(Val(t, n % M16))
      BY <1>0, <1>1, <1>5, <2>4 DEF Parse, n
    <3>2. n % M16 \in 0..(M16 - 1)
      BY <2>2, Widths, ModBounds
    <3>3. n < M16 => n % M16 = n
      BY <2>2, Widths, ModSmall
    <3>4. M16 % M16 = 0
      <4>1. M16 = 1 * M16 + 0 /\ 0 \in 0..(M16 - 1)
        BY Widths
      <4> QED
        BY <4>1, Widths, ModMultiple
    <3>5. ~(n > M16) => Carried(d, n % M16, TRUE, M16)
      <4> SUFFICES ASSUME ~(n > M16)
                   PROVE  Carried(d, n % M16, TRUE, M16)
        OBVIOUS
      <4>1. d \notin Far
        BY <2>2, <2>3, Widths
      <4>2. d \in Nat /\ d < M16 => n % M16 = d
        BY <2>2, <3>3, Widths
      <4>3. d \in 0..(H32 - 1) => n % M16 = d \/ (n % M16 = 0 /\ d = M16)
        BY <2>2, <3>3, <3>4, Widths
      <4> QED
        BY <2>1, <4>1, <4>2, <4>3 DEF Carried
    <3>6. CASE ~(n > M16)
      <4>1. n % M16 \in Data[t] /\ Carried(d, n % M16, TRUE, Room(t))
        BY <2>4, <3>2, <3>5, <3>6, DataFacts, RoomFacts
      <4>2. Parsed(d, t, Done(Val(t, n % M16)))
        BY <4>1, ParsedDone
      <4> QED
        BY <3>1, <3>6, <4>2
    <3>7. CASE n > M16
      <4>1. Parsed(d, t, Failed(w, "RANGE"))
        BY ParsedFailed DEF w
      <4> QED
        BY <3>1, <3>7, <4>1
    <3> QED
      BY <3>6, <3>7
  <2>5. CASE t = "OCTET"
    <3>1. r = IF n > M8 THEN Failed(w, "RANGE") ELSE Done(Val(t, n % M8))
      BY <1>0, <1>1, <1>5, <2>5 DEF Parse, n
    <3>2. n % M8 \in 0..(M8 - 1)
      BY <2>2, Widths, ModBounds
    <3>3. n < M8 => n % M8 = n
      BY <2>2, Widths, ModSmall
    <3>4. M8 % M8 = 0
      <4>1. M8 = 1 * M8 + 0 /\ 0 \in 0..(M8 - 1)
        BY Widths
      <4> QED
        BY <4>1, Widths, ModMultiple
    <3>5. ~(n > M8) => Carried(d, n % M8, TRUE, M8)
      <4> SUFFICES ASSUME ~(n > M8)
                   PROVE  Carried(d, n % M8, TRUE, M8)
        OBVIOUS
      <4>1. d \notin Far
        BY <2>2, <2>3, Widths
      <4>2. d \in Nat /\ d < M8 => n % M8 = d
        BY <2>2, <3>3, Widths
      <4>3. d \in 0..(H32 - 1) => n % M8 = d \/ (n % M8 = 0 /\ d = M8)
        BY <2>2, <3>3, <3>4, Widths
      <4> QED
        BY <2>1, <4>1, <4>2, <4>3 DEF Carried
    <3>6. CASE ~(n > M8)
      <4>1. n % M8 \in Data[t] /\ Carried(d, n % M8, TRUE, Room(t))
        BY <2>5, <3>2, <3>5, <3>6, DataFacts, RoomFacts
      <4>2. Parsed(d, t, Done(Val(t, n % M8)))
        BY <4>1, ParsedDone
      <4> QED
        BY <3>1, <3>6, <4>2
    <3>7. CASE n > M8
      <4>1. Parsed(d, t, Failed(w, "RANGE"))
        BY ParsedFailed DEF w
      <4> QED
        BY <3>1, <3>7, <4>1
    <3> QED
      BY <3>6, <3>7
  <2>6. CASE t = "INT32"
    <3> DEFINE e == Low32(Strtol(d))
    <3>1. r = Done(Val(t, e))
      BY <1>0, <1>1, <1>5, <2>6 DEF Parse
    <3>2. e \in (-H32)..(H32 - 1)
      BY <2>1, StrtolFacts, Low32Facts
    <3>3. d \in (-H32)..(H32 - 1) => e = d
      <4>1. d \in (-H32)..(H32 - 1) => Strtol(d) = d
        BY <2>1, StrtolFacts, Widths
      <4> QED
        BY <4>1, Low32Facts
    <3>4. d \in Far => e \in Far
      <4>1. CASE d \in (-H32)..(-1)
        BY <3>3, <4>1, Widths DEF Far
      <4>2. CASE d \in H32..(M32 - 1)
        <5>1. Strtol(d) = d
          BY <2>1, <4>2, StrtolFacts, Widths
        <5>2. e = d - M32
          BY <4>2, <5>1, Low32Facts
        <5> QED
          BY <4>2, <5>2, Widths DEF Far
      <4>3. CASE d \in (M64 - H32)..(M64 - 1)
        <5>1. d \in H64..(M64 - 1)
          BY <4>3, Widths
        <5>2. Strtol(d) = H64 - 1
          BY <5>1, StrtolFacts
        <5>3. e = -1
          BY <5>2, Low32Facts
        <5> QED
          BY <5>3, Widths DEF Far
      <4> QED
        BY <4>1, <4>2, <4>3 DEF Far
    <3>5. Carried(d, e, TRUE, H32)
      <4> HIDE DEF e
      <4>1. d \in Nat /\ d < H32 => e = d
        BY <2>1, <3>3, Widths
      <4>2. d \in 0..(H32 - 1) => e = d
        BY <2>1, <3>3, Widths
      <4> QED
        BY <2>1, <3>4, <4>1, <4>2 DEF Carried
    <3> HIDE DEF e
    <3>6. e \in Data[t] /\ Carried(d, e, TRUE, Room(t))
      BY <2>6, <3>2, <3>5, DataFacts, RoomFacts
    <3> QED
      BY <3>1, <3>6, ParsedDone
  <2>7. CASE t = "UINT32"
    <3>1. r = Done(Val(t, n % M32))
      BY <1>0, <1>1, <1>5, <2>7 DEF Parse, n
    <3>2. n % M32 \in 0..(M32 - 1)
      BY <2>2, Widths, ModBounds
    <3>3. n < M32 => n % M32 = n
      BY <2>2, Widths, ModSmall
    <3>4. n \in (M64 - H32)..(M64 - 1) => n % M32 \in H32..(M32 - 1)
      <4> SUFFICES ASSUME n \in (M64 - H32)..(M64 - 1)
                   PROVE  n % M32 \in H32..(M32 - 1)
        OBVIOUS
      <4> DEFINE x == M64 - n
      <4>1. x \in 1..M32 /\ x <= H32 /\ n = M64 - x
        BY Widths
      <4> HIDE DEF x
      <4>2. n % M32 = M32 - x
        BY <4>1, LowOfHigh
      <4> QED
        BY <4>1, <4>2, Widths
    <3>5. Carried(d, n % M32, TRUE, M32)
      <4>1. d \in Far => n % M32 \in Far
        BY <2>2, <2>3, <3>3, <3>4, Widths DEF Far
      <4>2. d \in Nat /\ d < M32 => n % M32 = d
        BY <2>2, <3>3, Widths
      <4>3. d \in 0..(H32 - 1) => n % M32 = d
        BY <4>2, Widths
      <4> QED
        BY <2>1, <4>1, <4>2, <4>3 DEF Carried
    <3>6. n % M32 \in Data[t] /\ Carried(d, n % M32, TRUE, Room(t))
      BY <2>7, <3>2, <3>5, DataFacts, RoomFacts
    <3> QED
      BY <3>1, <3>6, ParsedDone
  <2>8. CASE t = "UINT64"
    <3>1. r = Done(Val(t, n))
      BY <1>0, <1>1, <1>5, <2>8 DEF Parse, n
    <3>2. Carried(d, n, TRUE, M64)
      <4>1. d \in Far => n \in Far
        BY <2>3 DEF Far
      <4>2. d \in Nat /\ d < M64 => n = d
        BY <2>2, Widths
      <4>3. d \in 0..(H32 - 1) => n = d
        BY <2>2, Widths
      <4> QED
        BY <2>1, <4>1, <4>2, <4>3 DEF Carried
    <3>6. n \in Data[t] /\ Carried(d, n, TRUE, Room(t))
      BY <2>8, <2>2, <3>2, DataFacts, RoomFacts
    <3> QED
      BY <3>1, <3>6, ParsedDone
  <2> QED
    BY <1>5, <2>4, <2>5, <2>6, <2>7, <2>8 DEF Number
<1> QED
  BY <1>3, <1>4, <1>5 DEF Type, Number

Errors == {"OK", "LIBC", "RANGE", "STRING_CONVERSION", "UNKNOWN_TYPE"}

\* An outcome of converting v to t is right.
Converted(v, t, r) ==
    /\ r.val \in Value /\ r.err \in Errors
    /\ r.err = "OK" => r.val.type = t
    /\ Carried(v.data, r.val.data, r.err = "OK", Room(t))

LEMMA Carries ==
    ASSUME NEW d, NEW x, NEW e, NEW ok \in BOOLEAN, NEW m
    PROVE  /\ Carried(d, d, ok, m)
           /\ Carried(d, x, FALSE, 0) => Carried(d, x, ok, m)
           /\ Carried(d, x, FALSE, 0) /\ Carried(x, e, TRUE, m) => Carried(d, e, TRUE, m)
<1>1. 0..(H32 - 1) \subseteq Nat
  BY Widths
<1> QED
  BY <1>1 DEF Carried

\* The outcomes are those of the value as it was, of its text, and of parsing that.
LEMMA ChangeCases ==
    ASSUME NEW v \in Value, NEW t \in Type, NEW r \in Change(v, t)
    PROVE  LET w == Val("STRING", Printed(v)) IN
           \/ v.type = t /\ r = Done(v)
           \/ r = Failed(v, "LIBC")
           \/ t = "STRING" /\ r = Done(w)
           \/ r = Failed(w, "LIBC")
           \/ t # "STRING" /\ r = Parse(w, t)
<1> DEFINE w == Val("STRING", Printed(v))
<1>0. /\ \A e : Done(e).val = e /\ Done(e).err = "OK"
      /\ \A e, x : Failed(e, x).val = e /\ Failed(e, x).err = x
      /\ "LIBC" # "OK"
  BY DEF Done, Failed
<1>1. CASE v.type = t
  <2>1. r \in {Done(v)}
    BY <1>1 DEF Change
  <2> QED
    BY <1>1, <2>1
<1>2. CASE v.type # t /\ t = "STRING"
  <2>1. r \in ToString(v)
    BY <1>2 DEF Change
  <2> QED
    BY <1>2, <2>1 DEF ToString
<1>3. CASE v.type = "STRING" /\ t # "STRING"
  <2>1. r \in FromString(v, t)
    BY <1>3 DEF Change
  <2>2. v = w
    BY <1>3, PrintedFacts
  <2> QED
    BY <1>3, <2>1, <2>2 DEF FromString
<1>4. CASE v.type # t /\ t # "STRING" /\ v.type # "STRING"
  <2>1. r \in {Failed(v, "LIBC")} \cup
           UNION {IF q.err # "OK" THEN {q} ELSE FromString(q.val, t) : q \in ToString(v)}
    BY <1>4 DEF Change
  <2>2. CASE r = Failed(v, "LIBC")
    BY <2>2
  <2>3. CASE r # Failed(v, "LIBC")
    <3>1. PICK q \in ToString(v) : r \in IF q.err # "OK" THEN {q} ELSE FromString(q.val, t)
      BY <2>1, <2>3
    <3>2. q = Done(w) \/ q = Failed(v, "LIBC")
      BY DEF ToString
    <3>3. q.err # "OK" => r = q
      BY <3>1
    <3>4. q.err = "OK" /\ q = Done(w)
      BY <1>0, <2>3, <3>2, <3>3
    <3>5. r \in FromString(w, t)
      <4>1. q.val = w
        BY <1>0, <3>4
      <4> QED
        BY <3>1, <3>4, <4>1
    <3>6. r = Parse(w, t) \/ r = Failed(w, "LIBC")
      BY <3>5 DEF FromString
    <3> QED
      BY <1>4, <3>6
  <2> QED
    BY <2>2, <2>3
<1> QED
  BY <1>1, <1>2, <1>3, <1>4

LEMMA ChangeFacts ==
    ASSUME NEW v \in Value, NEW t \in Type, NEW r \in Change(v, t)
    PROVE  Converted(v, t, r)
<1> DEFINE w == Val("STRING", Printed(v))
<1>0. /\ \A e : Done(e).val = e /\ Done(e).err = "OK"
      /\ \A e, x : Failed(e, x).val = e /\ Failed(e, x).err = x
  BY DEF Done, Failed
<1>1. /\ Printed(v) \in Data["STRING"] /\ Carried(v.data, Printed(v), FALSE, 0)
      /\ w \in Value /\ w.type = "STRING" /\ w.data = Printed(v)
  BY PrintedFacts, ValueFacts DEF Type
<1> HIDE DEF w
<1>2. CASE v.type = t /\ r = Done(v)
  BY <1>0, <1>2, Carries DEF Converted, Errors
<1>3. CASE r = Failed(v, "LIBC")
  <2>1. r.val = v /\ r.err = "LIBC"
    BY <1>0, <1>3
  <2>2. Carried(v.data, r.val.data, FALSE, Room(t))
    BY <2>1, Carries
  <2>3. (r.err = "OK") = FALSE
    BY <2>1
  <2> QED
    BY <2>1, <2>2, <2>3 DEF Converted, Errors
<1>4. CASE t = "STRING" /\ r = Done(w)
  <2>1. r.val = w /\ r.err = "OK"
    BY <1>0, <1>4
  <2>2. Carried(v.data, r.val.data, TRUE, Room(t))
    BY <1>1, <2>1, Carries
  <2> QED
    BY <1>1, <1>4, <2>1, <2>2 DEF Converted, Errors
<1>5. CASE r = Failed(w, "LIBC")
  <2>1. r.val = w /\ r.err = "LIBC"
    BY <1>0, <1>5
  <2>2. Carried(v.data, r.val.data, FALSE, Room(t))
    BY <1>1, <2>1, Carries
  <2>3. (r.err = "OK") = FALSE
    BY <2>1
  <2> QED
    BY <1>1, <2>1, <2>2, <2>3 DEF Converted, Errors
<1>6. CASE t # "STRING" /\ r = Parse(w, t)
  <2>1. Parsed(Printed(v), t, r)
    BY <1>1, <1>6, ParseFacts DEF w
  <2>2. CASE r.err = "OK"
    <3>1. /\ r.val.data \in Data[t] /\ r.val = Val(t, r.val.data)
          /\ Carried(Printed(v), r.val.data, TRUE, Room(t))
      BY <2>1, <2>2 DEF Parsed
    <3>2. r.val \in Value /\ r.val.type = t
      BY <3>1, ValueFacts
    <3>3. Carried(v.data, r.val.data, TRUE, Room(t))
      BY <1>1, <3>1, Carries
    <3> QED
      BY <2>2, <3>2, <3>3 DEF Converted, Errors
  <2>3. CASE r.err # "OK"
    <3>1. r.val = w /\ r.err \in Errors
      BY <2>1, <2>3 DEF Parsed, Errors, w
    <3>2. Carried(v.data, r.val.data, FALSE, Room(t))
      BY <1>1, <3>1, Carries
    <3> QED
      BY <1>1, <2>3, <3>1, <3>2 DEF Converted
  <2> QED
    BY <2>2, <2>3
<1> QED
  BY <1>2, <1>3, <1>4, <1>5, <1>6, ChangeCases DEF w

LEMMA LesserFacts ==
    ASSUME TypeOK, NEW t
    PROVE  /\ Lesser(narrow, Room(t)) \in {M8, M16, H32, M32, M64}
           /\ Lesser(narrow, Room(t)) <= narrow /\ Lesser(narrow, Room(t)) <= Room(t)
           /\ narrow \in Nat /\ narrow <= M64
<1>1. narrow \in {M8, M16, H32, M32, M64} /\ narrow \in Nat /\ narrow <= M64
  BY Widths DEF TypeOK
<1>2. Room(t) \in {M8, M16, H32, M32, M64} /\ Room(t) \in Nat
  BY RoomFacts
<1> QED
  BY <1>1, <1>2 DEF Lesser

LEMMA OrigFacts ==
    ASSUME TypeOK, orig # NoValue
    PROVE  orig \in Value /\ orig.data \in Texts \cup Int
<1>1. orig \in Value
  BY DEF TypeOK
<1>2. orig.type \in Type /\ orig.data \in Data[orig.type]
  BY <1>1, ValueFacts
<1>3. orig.data \in Texts \cup Int
  <2>1. orig.type \in {"OCTET", "UINT16", "INT32", "UINT32", "UINT64"} => orig.data \in Int
    BY <1>2, DataFacts, Widths
  <2>2. orig.type = "STRING" => orig.data \in Texts \cup Int
    BY <1>2, DataFacts, Widths
  <2>3. orig.type \in {"IP4ADDR", "IP6ADDR"} => orig.data \in Texts
    BY <1>2, DataFacts DEF Texts, Addr
  <2> QED
    BY <1>2, <2>1, <2>2, <2>3 DEF Type, Number
<1> QED
  BY <1>1, <1>3

\* A number of 32 bits stays what it was through a conversion, or 0, or far.
LEMMA KeptKeeps ==
    ASSUME orig.data \in 0..(M32 - 1), NEW d, Kept(d), NEW e, NEW ok \in BOOLEAN, NEW m,
           Carried(d, e, ok, m)
    PROVE  Kept(e)
<1>1. CASE d \in Far
  BY <1>1 DEF Kept, Carried
<1>2. CASE d = orig.data /\ d \notin Far
  <2>1. d \in 0..(H32 - 1)
    BY <1>2, Widths DEF Far
  <2> QED
    BY <1>2, <2>1 DEF Carried, Kept, InRange
<1>3. CASE d = 0 /\ orig.data \in {M8, M16}
  <2>1. 0 \in 0..(H32 - 1)
    BY Widths
  <2>2. e = 0
    BY <1>3, <2>1 DEF Carried
  <2> QED
    BY <1>3, <2>2 DEF Kept, InRange
<1> QED
  BY <1>1, <1>2, <1>3 DEF Kept, InRange

\* What fits 16 bits is in range.
LEMMA KeptInRange ==
    ASSUME NEW d \in 0..(M16 - 1), Kept(d)
    PROVE  InRange(d)
<1>1. d \notin Far
  BY Widths DEF Far
<1> QED
  BY <1>1 DEF Kept

\* A conversion that counts its type in narrow keeps what holds of the value.
LEMMA HeldKeeps ==
    ASSUME TypeOK, NEW d, Held(d), NEW e, NEW ok \in BOOLEAN, NEW t,
           Carried(d, e, ok, Room(t)), orig' = orig,
           narrow' = IF ok THEN Lesser(narrow, Room(t)) ELSE narrow
    PROVE  Held(e)'
<1>1. orig # NoValue /\ Survives(d) /\ (orig.data \in 0..(M32 - 1) => Kept(d))
  BY DEF Held
<1>2. orig.data \in Texts \cup Int
  BY <1>1, OrigFacts
<1>3. /\ narrow \in Nat /\ Room(t) \in Nat /\ narrow' \in Nat
      /\ narrow' <= narrow /\ (ok => narrow' <= Room(t))
  BY LesserFacts, RoomFacts, Widths
<1>4. Survives(e)'
  <2>1. CASE orig.data \in Texts
    <3>1. d = orig.data
      BY <1>1, <2>1 DEF Survives, Texts
    <3> QED
      BY <2>1, <3>1 DEF Carried, Survives, Texts
  <2>2. CASE orig.data \notin Texts
    <3> SUFFICES ASSUME 0 <= orig.data, orig.data < narrow'
                 PROVE  e = orig.data
      BY <2>2 DEF Survives, Texts
    <3>1. orig.data \in Nat /\ orig.data < narrow
      BY <1>2, <1>3, <2>2
    <3>2. d = orig.data
      BY <1>1, <2>2, <3>1 DEF Survives, Texts
    <3>3. ok => d < Room(t)
      BY <1>3, <3>1, <3>2
    <3> QED
      BY <3>1, <3>2, <3>3 DEF Carried
  <2> QED
    BY <2>1, <2>2
<1>5. ASSUME orig.data \in 0..(M32 - 1)
      PROVE  Kept(e)'
  <2>1. Kept(e)
    BY <1>1, <1>5, KeptKeeps
  <2> QED
    BY <2>1 DEF Kept, InRange
<1> QED
  BY <1>1, <1>4, <1>5 DEF Held

LEMMA InitKeeps == Init => VInv
<1> SUFFICES ASSUME Init
             PROVE  VInv
  OBVIOUS
<1>1. TypeOK
  BY DEF Init, TypeOK
<1> QED
  BY <1>1 DEF Init, VInv, Put, AnswerTrue, AnswerChecked, NoAnswer

\* A value that is made is what it is.
LEMMA MadeIsHeld ==
    ASSUME NEW v \in Value, orig' = v
    PROVE  Held(v.data)'
BY NoValueAssumption DEF Held, Survives, Kept, InRange

LEMMA NewKeeps ==
    ASSUME VInv, NEW v \in Value, New(v)
    PROVE  VInv'
<1>1. val = NoValue /\ buf = NoValue /\ UNCHANGED <<answer, buf, signs>>
  BY DEF New
<1>2. CASE val' = v /\ err' = "OK" /\ orig' = v /\ narrow' = Room(v.type)
  <2>1. TypeOK'
    BY <1>1, <1>2, RoomFacts DEF VInv, TypeOK
  <2>2. Held(val.data)'
    BY <1>2, MadeIsHeld
  <2>3. answer = NoValue
    BY <1>1 DEF VInv, NoAnswer
  <2> QED
    BY <1>1, <2>1, <2>2, <2>3 DEF VInv, Put, AnswerTrue, AnswerChecked, NoAnswer
<1>3. CASE err' = "LIBC" /\ UNCHANGED <<val, orig, narrow>>
  BY <1>1, <1>3 DEF VInv, TypeOK, Put, AnswerTrue, AnswerChecked, NoAnswer
<1> QED
  BY <1>2, <1>3 DEF New

LEMMA FreeValueKeeps == VInv /\ FreeValue => VInv'
<1> SUFFICES ASSUME VInv, FreeValue
             PROVE  VInv'
  OBVIOUS
<1>1. /\ val # NoValue /\ val' = NoValue /\ err' = "OK" /\ answer' = NoValue
      /\ orig' = NoValue /\ narrow' = M64 /\ UNCHANGED <<buf, signs>> /\ buf = NoValue
  BY DEF FreeValue, VInv
<1> QED
  BY <1>1 DEF VInv, TypeOK, Put, AnswerTrue, AnswerChecked, NoAnswer

LEMMA ChangeTypeKeeps ==
    ASSUME VInv, NEW t \in Type, ChangeType(t)
    PROVE  VInv'
<1>1. PICK r \in Change(val, t) :
          /\ val' = r.val /\ err' = r.err
          /\ narrow' = IF r.err = "OK" THEN Lesser(narrow, Room(t)) ELSE narrow
  BY DEF ChangeType
<1>2. /\ val # NoValue /\ val \in Value /\ answer' = NoValue /\ UNCHANGED <<buf, signs, orig>>
      /\ buf = NoValue /\ Held(val.data)
  BY DEF ChangeType, VInv, TypeOK
<1>3. Converted(val, t, r)
  BY <1>2, ChangeFacts
<1>4. TypeOK'
  BY <1>1, <1>2, <1>3, LesserFacts DEF VInv, TypeOK, Converted, Errors
<1>5. Held(val.data)'
  <2> DEFINE ok == r.err = "OK"
             e == r.val.data
  <2>1. Carried(val.data, e, ok, Room(t)) /\ ok \in BOOLEAN
    BY <1>3 DEF Converted
  <2>2. narrow' = IF ok THEN Lesser(narrow, Room(t)) ELSE narrow
    BY <1>1
  <2>3. e = val'.data
    BY <1>1
  <2> HIDE DEF ok, e
  <2>4. Held(e)'
    BY <1>2, <2>1, <2>2, HeldKeeps DEF VInv
  <2> QED
    BY <2>3, <2>4
<1> QED
  BY <1>2, <1>4, <1>5 DEF VInv, Put, AnswerTrue, AnswerChecked, NoAnswer

LEMMA AskAsKeeps ==
    ASSUME VInv, NEW t \in Type, AskAs(t)
    PROVE  VInv'
<1>1. PICK r \in As(val, t) : err' = r.err /\ answer' = IF r.err = "OK" THEN r.val ELSE NoValue
  BY DEF AskAs
<1>2. /\ val # NoValue /\ val \in Value /\ UNCHANGED <<val, buf, signs, orig, narrow>>
      /\ buf = NoValue /\ Held(val.data)
  BY DEF AskAs, VInv, TypeOK
<1>3. /\ r.err \in Errors
      /\ r.err = "OK" =>
            /\ r.val \in Value /\ r.val.type = t
            /\ val.data \in Nat /\ val.data < Room(t) => r.val.data = val.data
            /\ t = "UINT16" => Carried(val.data, r.val.data, TRUE, M16)
            /\ t = "OCTET" => \E d \in 0..(M16 - 1) :
                                 Carried(val.data, d, TRUE, M16) /\ r.val.data = d % M8
  <2>1. CASE r = Failed(val, "LIBC")
    BY <2>1 DEF Failed, Errors
  <2>2. CASE t # "OCTET" /\ r \in Change(val, t)
    <3>1. Converted(val, t, r)
      BY <1>2, <2>2, ChangeFacts
    <3>2. r.err = "OK" => Carried(val.data, r.val.data, TRUE, Room(t))
      <4>1. CASE r.err = "OK"
        <5>1. (r.err = "OK") = TRUE
          BY <4>1
        <5> QED
          BY <3>1, <5>1 DEF Converted
      <4> QED
        BY <4>1
    <3>3. /\ r.err \in Errors
          /\ r.err = "OK" => r.val \in Value /\ r.val.type = t
      BY <3>1 DEF Converted
    <3>4. r.err = "OK" /\ val.data \in Nat /\ val.data < Room(t) => r.val.data = val.data
      BY <3>2 DEF Carried
    <3>5. r.err = "OK" /\ t = "UINT16" => Carried(val.data, r.val.data, TRUE, M16)
      BY <3>2, RoomFacts
    <3> QED
      BY <2>2, <3>3, <3>4, <3>5
  <2>3. CASE t = "OCTET" /\ r # Failed(val, "LIBC")
    <3>1. PICK q \in Change(val, "UINT16") :
              r = IF q.err = "OK" THEN Done(Val(t, q.val.data % M8)) ELSE q
      BY <2>3 DEF As
    <3>2. Converted(val, "UINT16", q)
      BY <1>2, ChangeFacts DEF Type, Number
    <3>3. CASE q.err = "OK"
      <4>1. r.err = "OK" /\ r.val = Val(t, q.val.data % M8)
        BY <3>1, <3>3 DEF Done
      <4>2. q.val.data \in 0..(M16 - 1)
        BY <3>2, <3>3, ValueFacts, DataFacts DEF Converted
      <4>3. q.val.data % M8 \in Data[t]
        <5>1. q.val.data \in Int /\ M8 \in Nat \ {0}
          BY <4>2, Widths
        <5>2. q.val.data % M8 \in 0..(M8 - 1)
          BY <5>1, ModBounds
        <5> QED
          BY <2>3, <5>2, DataFacts
      <4>4. r.val \in Value /\ r.val.type = t /\ r.val.data = q.val.data % M8
        BY <4>1, <4>3, ValueFacts
      <4>5. val.data \in Nat /\ val.data < M8 => q.val.data = val.data
        BY <3>2, <3>3, Widths, RoomFacts DEF Converted, Carried
      <4>6. q.val.data < M8 => q.val.data % M8 = q.val.data
        BY <4>2, Widths, ModSmall
      <4>7. Carried(val.data, q.val.data, TRUE, M16)
        <5>1. (q.err = "OK") = TRUE
          BY <3>3
        <5> QED
          BY <3>2, <5>1, RoomFacts DEF Converted
      <4> QED
        BY <2>3, <4>1, <4>2, <4>4, <4>5, <4>6, <4>7, RoomFacts DEF Errors
    <3>4. CASE q.err # "OK"
      BY <3>1, <3>2, <3>4 DEF Converted
    <3> QED
      BY <3>3, <3>4
  <2> QED
    BY <2>1, <2>2, <2>3 DEF As
<1>4. TypeOK'
  BY <1>1, <1>2, <1>3 DEF VInv, TypeOK, Errors
<1>5. AnswerTrue'
  <2> SUFFICES ASSUME r.err = "OK", Reads(orig.data),
                      orig.data \in 0..(Lesser(narrow, Room(t)) - 1)
               PROVE  r.val.data = orig.data
    BY <1>1, <1>2, <1>3 DEF AnswerTrue
  <2>1. orig.data \in Nat /\ orig.data < narrow /\ orig.data < Room(t)
    BY LesserFacts, RoomFacts, Widths DEF VInv
  <2>2. val.data = orig.data
    BY <1>2, <2>1, TextFacts DEF Held, Survives, Texts
  <2> QED
    BY <1>3, <2>1, <2>2
<1>6. Held(val.data)'
  BY <1>2 DEF Held, Survives, Kept, InRange
<1>7. AnswerChecked'
  <2> SUFFICES ASSUME r.err = "OK", orig.data \in 0..(M32 - 1)
               PROVE  /\ t = "UINT16" => InRange(r.val.data)
                      /\ t = "OCTET" => \E d \in 0..(M16 - 1) : InRange(d) /\ r.val.data = d % M8
    BY <1>1, <1>2, <1>3 DEF AnswerChecked, InRange
  <2>1. Kept(val.data)
    BY <1>2 DEF Held
  <2>2. CASE t = "UINT16"
    <3>1. Carried(val.data, r.val.data, TRUE, M16) /\ r.val.data \in 0..(M16 - 1)
      BY <1>3, <2>2, ValueFacts, DataFacts
    <3>2. Kept(r.val.data)
      BY <2>1, <3>1, KeptKeeps
    <3> QED
      BY <2>2, <3>1, <3>2, KeptInRange
  <2>3. CASE t = "OCTET"
    <3>1. PICK d \in 0..(M16 - 1) : Carried(val.data, d, TRUE, M16) /\ r.val.data = d % M8
      BY <1>3, <2>3
    <3>2. Kept(d)
      BY <2>1, <3>1, KeptKeeps
    <3> QED
      BY <2>3, <3>1, <3>2, KeptInRange
  <2> QED
    BY <2>2, <2>3
<1> QED
  BY <1>2, <1>4, <1>5, <1>6, <1>7 DEF VInv, Put, NoAnswer

LEMMA VarTypeFacts ==
    ASSUME NEW vt \in VarType
    PROVE  ValueType(vt) \in Type
BY DEF ValueType, Type, Number

LEMMA WriteKeeps ==
    ASSUME VInv, NEW vt \in VarType, Write(vt)
    PROVE  VInv'
<1>1. PICK r \in IF vt = "INET_ADDRESS"
                 THEN {Failed(val, "UNKNOWN_TYPE"), Failed(val, "LIBC")}
                 ELSE {Failed(val, "LIBC")} \cup Change(val, ValueType(vt)) :
          /\ err' = r.err
          /\ \/ /\ r.err = "OK"
                /\ buf' = [type |-> vt, data |-> r.val.data]
                /\ narrow' = Lesser(narrow, Room(ValueType(vt)))
                /\ val' = NoValue /\ UNCHANGED orig
             \/ r.err # "OK" /\ UNCHANGED <<val, buf, orig, narrow>>
  BY DEF Write
<1>2. /\ val # NoValue /\ val \in Value /\ answer' = NoValue /\ UNCHANGED signs
      /\ buf = NoValue /\ Held(val.data)
  BY DEF Write, VInv, TypeOK
<1>3. /\ r.err \in Errors
      /\ r.err = "OK" => vt # "INET_ADDRESS" /\ Converted(val, ValueType(vt), r)
  <2>1. CASE r = Failed(val, "UNKNOWN_TYPE") \/ r = Failed(val, "LIBC")
    BY <2>1 DEF Failed, Errors
  <2>2. CASE vt # "INET_ADDRESS" /\ r \in Change(val, ValueType(vt))
    <3>1. Converted(val, ValueType(vt), r)
      BY <1>2, <2>2, ChangeFacts, VarTypeFacts
    <3> QED
      BY <2>2, <3>1 DEF Converted
  <2> QED
    BY <1>1, <2>1, <2>2
<1>4. CASE r.err # "OK"
  <2>1. UNCHANGED <<val, buf, orig, narrow>>
    BY <1>1, <1>4
  <2>2. Held(val.data)'
    BY <1>2, <2>1 DEF Held, Survives, Kept, InRange
  <2> QED
    BY <1>1, <1>2, <1>3, <2>1, <2>2 DEF VInv, TypeOK, Errors, Put, AnswerTrue, AnswerChecked, NoAnswer
<1>5. CASE r.err = "OK"
  <2> DEFINE e == r.val.data
             t == ValueType(vt)
  <2>1. /\ buf' = [type |-> vt, data |-> e] /\ narrow' = Lesser(narrow, Room(t))
        /\ val' = NoValue /\ orig' = orig /\ err' = "OK"
    BY <1>1, <1>5
  <2>2. Converted(val, t, r) /\ vt # "INET_ADDRESS"
    BY <1>3, <1>5
  <2>3. Carried(val.data, e, TRUE, Room(t)) /\ e \in Data[t]
    <3>1. (r.err = "OK") = TRUE
      BY <1>5
    <3>2. r.val \in Value /\ r.val.type = t
      BY <1>5, <2>2 DEF Converted
    <3> QED
      BY <2>2, <3>1, <3>2, ValueFacts DEF Converted
  <2> HIDE DEF e
  <2>4. Held(e)'
    <3> HIDE DEF t
    <3> QED
      BY <1>2, <2>1, <2>3, HeldKeeps DEF VInv
  <2>5. buf'.data = e /\ buf'.type = vt
    BY <2>1
  <2>6. TypeOK'
    BY <1>2, <2>1, <2>5, LesserFacts DEF VInv, TypeOK
  <2>7. Put'
    BY <2>2, <2>3, <2>5 DEF Put
  <2> QED
    BY <1>2, <2>1, <2>4, <2>5, <2>6, <2>7 DEF VInv, AnswerTrue, AnswerChecked, NoAnswer
<1> QED
  BY <1>4, <1>5

LEMMA KernelShowsKeeps ==
    ASSUME VInv, NEW a \in Addr, KernelShows(a)
    PROVE  VInv'
<1> DEFINE t == IF a \in Addr4 THEN "IP4ADDR" ELSE "IP6ADDR"
<1>1. /\ val = NoValue /\ buf' = [type |-> "INET_ADDRESS", data |-> a]
      /\ orig' = Val(t, a) /\ UNCHANGED <<val, err, answer, signs, narrow>>
  BY DEF KernelShows
<1>2. t \in Type /\ a \in Data[t]
  BY TextFacts, DataFacts DEF Type
<1>3. Val(t, a) \in Value /\ Val(t, a).data = a
  BY <1>2, ValueFacts
<1> HIDE DEF t
<1>4. Held(a)'
  BY <1>1, <1>3, MadeIsHeld
<1>5. buf'.data = a /\ buf'.type = "INET_ADDRESS"
  BY <1>1
<1>6. TypeOK'
  BY <1>1, <1>3, <1>5 DEF VInv, TypeOK, VarType
<1> QED
  BY <1>1, <1>4, <1>5, <1>6 DEF VInv, Put, AnswerTrue, AnswerChecked, NoAnswer

LEMMA ReadKeeps == VInv /\ Read => VInv'
<1> SUFFICES ASSUME VInv, Read
             PROVE  VInv'
  OBVIOUS
<1>1. /\ val = NoValue /\ buf # NoValue /\ UNCHANGED <<answer, signs, orig, narrow>>
      /\ answer = NoValue /\ Held(buf.data) /\ buf.type \in VarType
  BY DEF Read, VInv, NoAnswer, TypeOK
<1>3. CASE err' = "LIBC" /\ UNCHANGED <<val, buf>>
  <2>1. Held(buf.data)'
    BY <1>1, <1>3 DEF Held, Survives, Kept, InRange
  <2> QED
    BY <1>1, <1>3, <2>1 DEF VInv, TypeOK, Put, AnswerTrue, AnswerChecked, NoAnswer
<1>4. CASE err' # "LIBC" \/ ~UNCHANGED <<val, buf>>
  <2> DEFINE t == IF buf.type # "INET_ADDRESS" THEN ValueType(buf.type)
                  ELSE IF buf.data \in Addr4 THEN "IP4ADDR" ELSE "IP6ADDR"
  <2>1. val' = Val(t, buf.data) /\ buf' = NoValue /\ err' = "OK"
    BY <1>4 DEF Read
  <2>2. t \in Type /\ buf.data \in Data[t]
    <3>1. CASE buf.type # "INET_ADDRESS"
      BY <1>1, <3>1, VarTypeFacts DEF VInv, Put
    <3>2. CASE buf.type = "INET_ADDRESS"
      <4>1. buf.data \in Addr
        BY <1>1, <3>2 DEF VInv, Put
      <4> QED
        BY <3>2, <4>1, TextFacts, DataFacts DEF Type
    <3> QED
      BY <3>1, <3>2
  <2> HIDE DEF t
  <2>3. val' \in Value /\ val'.data = buf.data
    BY <2>1, <2>2, ValueFacts
  <2>4. Held(val.data)'
    BY <1>1, <2>3 DEF Held, Survives, Kept, InRange
  <2>5. TypeOK'
    BY <1>1, <2>1, <2>3 DEF VInv, TypeOK
  <2> QED
    BY <1>1, <2>1, <2>4, <2>5 DEF VInv, Put, AnswerTrue, AnswerChecked, NoAnswer
<1> QED
  BY <1>3, <1>4

LEMMA StutterKeeps == VInv /\ UNCHANGED vars => VInv'
BY DEF VInv, TypeOK, Put, AnswerTrue, AnswerChecked, NoAnswer, Held, Survives, Kept, InRange, vars

\* What is left of a value through every sequence of calls.
THEOREM ValueInvariant == Spec => []VInv
<1>1. VInv /\ [Next]_vars => VInv'
  <2> SUFFICES ASSUME VInv, [Next]_vars
               PROVE  VInv'
    OBVIOUS
  <2>1. CASE \E v \in Value : New(v)
    BY <2>1, NewKeeps
  <2>2. CASE \E t \in Type : ChangeType(t) \/ AskAs(t)
    BY <2>2, ChangeTypeKeeps, AskAsKeeps
  <2>3. CASE \E vt \in VarType : Write(vt)
    BY <2>3, WriteKeeps
  <2>4. CASE \E a \in Addr : KernelShows(a)
    BY <2>4, KernelShowsKeeps
  <2> QED
    BY <2>1, <2>2, <2>3, <2>4, FreeValueKeeps, ReadKeeps, StutterKeeps DEF Next
<1> QED
  BY <1>1, InitKeeps, PTL DEF Spec

\* The union holds what its tag says (types-int.h:87-99), after every call, also one that
\* failed half way.
THEOREM ValueTypeCorrect == Spec => []TypeOK
<1>1. VInv => TypeOK
  BY DEF VInv
<1> QED
  BY <1>1, ValueInvariant, PTL

\* A number that every type on its way can hold is never lost (value.c:258-507), at every
\* width and through every sequence of conversions, writes and failures.
THEOREM NumberIsKept == Spec => []NumberSurvives
<1>1. VInv => NumberSurvives
  BY DEF VInv, Held, AnswerTrue, NumberSurvives
<1> QED
  BY <1>1, ValueInvariant, PTL

\* What 16 or 8 bits cannot hold is refused (value.c:319 and 342), the modulus itself
\* excepted, also after a way through other types; but estats_value_as_octet refuses only
\* what 16 bits cannot hold, and returns the low byte of the rest (value.c:493).
THEOREM RangeIsChecked == Spec => []RangeChecked
<1>1. VInv => RangeChecked
  <2> SUFFICES ASSUME VInv, val # NoValue, orig.data \in 0..(M32 - 1)
               PROVE  RangeChecked
    BY DEF RangeChecked
  <2>1. val \in Value /\ Kept(val.data) /\ AnswerChecked
    BY DEF VInv, TypeOK, Held
  <2>2. val.type \in {"UINT16", "OCTET"} => val.data \in 0..(M16 - 1)
    BY <2>1, ValueFacts, DataFacts, Widths
  <2>3. val.type \in {"UINT16", "OCTET"} => InRange(val.data)
    BY <2>1, <2>2, KeptInRange
  <2> QED
    BY <2>1, <2>3 DEF RangeChecked, AnswerChecked
<1> QED
  BY <1>1, ValueInvariant, PTL

-----------------------------------------------------------------------------
(* Texts and their order *)

LEMMA Least ==
    ASSUME NEW S \in SUBSET Nat, S # {}
    PROVE  \E m \in S : \A x \in S : m <= x
<1> DEFINE T == {0..x : x \in S}
           R == StrictSubsetOrdering(Nat)
<1>1. ASSUME NEW x \in S
      PROVE  0..x \in FiniteSubsetsOf(Nat)
  <2>1. x \in Int /\ 0 \in Int /\ 0..x \in SUBSET Nat
    OBVIOUS
  <2> QED
    BY <2>1, FS_Interval DEF FiniteSubsetsOf
<1>2. T \subseteq FiniteSubsetsOf(Nat) /\ T # {}
  BY <1>1
<1>3. IsWellFoundedOn(R, FiniteSubsetsOf(Nat))
  BY FS_StrictSubsetOrderingWellFounded
<1> HIDE DEF T, R
<1>4. PICK t \in T : \A y \in T : ~(<<y, t>> \in R)
  BY <1>2, <1>3, WFMin
<1>5. PICK m \in S : t = 0..m
  BY DEF T
<1>6. ASSUME NEW x \in S
      PROVE  ~(x < m)
  <2>1. 0..x \in T /\ ~(<<0..x, 0..m>> \in R)
    BY <1>4, <1>5 DEF T
  <2>2. ASSUME x < m
        PROVE  0..x \in SUBSET (0..m) /\ 0..x # 0..m /\ 0..m \in SUBSET Nat
    <3>1. m \in 0..m /\ m \notin 0..x /\ \A j \in 0..x : j \in 0..m
      BY <2>2
    <3> QED
      BY <3>1
  <2> QED
    BY <2>1, <2>2 DEF R, StrictSubsetOrdering
<1> QED
  BY <1>6

\* What holds of a number when it holds of every smaller one holds of all.
LEMMA AllByLesser ==
    ASSUME NEW S \in SUBSET Nat,
           \A n \in Nat : (\A k \in 0..(n - 1) : k \in S) => n \in S
    PROVE  \A n \in Nat : n \in S
<1>1. SUFFICES ASSUME NEW i \in Nat, i \notin S
               PROVE  FALSE
  OBVIOUS
<1> DEFINE T == Nat \ S
<1>2. T \in SUBSET Nat /\ T # {}
  BY <1>1
<1> HIDE DEF T
<1>3. PICK m \in T : \A x \in T : m <= x
  BY <1>2, Least
<1>4. m \in Nat /\ m \notin S
  BY <1>3 DEF T
<1>5. \A k \in 0..(m - 1) : k \in S
  <2> SUFFICES ASSUME NEW k \in 0..(m - 1), k \notin S
               PROVE  FALSE
    OBVIOUS
  <2>1. k \in T /\ ~(m <= k)
    BY <1>4 DEF T
  <2> QED
    BY <1>3, <2>1
<1> QED
  BY <1>4, <1>5

\* Before goes by the first place where the two differ.
LEMMA BeforeAt ==
    ASSUME NEW s \in Seq(Int), NEW t \in Seq(Int), NEW m \in Nat \ {0},
           \A j \in 1..(m - 1) : j \in DOMAIN s /\ j \in DOMAIN t /\ s[j] = t[j],
           ~(m \in DOMAIN s /\ m \in DOMAIN t /\ s[m] = t[m])
    PROVE  Before(s, t) <=> m \in DOMAIN t /\ (m \in DOMAIN s => s[m] < t[m])
<1>1. DOMAIN s = 1..Len(s) /\ DOMAIN t = 1..Len(t) /\ Len(s) \in Nat /\ Len(t) \in Nat
  OBVIOUS
<1>2. \A j \in DOMAIN s : s[j] \in Int
  BY <1>1
<1>3. ASSUME NEW i \in DOMAIN t,
             \A j \in 1..(i - 1) : j \in DOMAIN s /\ s[j] = t[j],
             i \in DOMAIN s => s[i] < t[i]
      PROVE  i = m
  <2>1. i \in Nat \ {0}
    BY <1>1
  <2>2. CASE i < m
    <3>1. i \in 1..(m - 1)
      BY <2>1, <2>2
    <3>2. i \in DOMAIN s /\ s[i] = t[i] /\ s[i] \in Int
      BY <1>2, <3>1
    <3>3. ~(s[i] < s[i])
      BY <3>2
    <3> QED
      BY <1>3, <3>2, <3>3
  <2>3. CASE m < i
    <3>1. m \in 1..(i - 1) /\ m \in DOMAIN t
      BY <1>1, <2>1, <2>3
    <3> QED
      BY <1>3, <3>1
  <2> QED
    BY <2>1, <2>2, <2>3
<1>4. Before(s, t) => m \in DOMAIN t /\ (m \in DOMAIN s => s[m] < t[m])
  BY <1>3 DEF Before
<1>5. m \in DOMAIN t /\ (m \in DOMAIN s => s[m] < t[m]) => Before(s, t)
  BY DEF Before
<1> QED
  BY <1>4, <1>5

\* Of two different texts one comes before the other, and only that one.
LEMMA BeforeTotal ==
    ASSUME NEW s \in Seq(Int), NEW t \in Seq(Int), s # t
    PROVE  Before(s, t) <=> ~Before(t, s)
<1> DEFINE S == {i \in Nat \ {0} : ~(i \in DOMAIN s /\ i \in DOMAIN t /\ s[i] = t[i])}
<1>1. /\ DOMAIN s = 1..Len(s) /\ DOMAIN t = 1..Len(t) /\ Len(s) \in Nat /\ Len(t) \in Nat
      /\ \A j \in DOMAIN s : s[j] \in Int
      /\ \A j \in DOMAIN t : t[j] \in Int
  OBVIOUS
<1>2. Len(s) + 1 \in S
  BY <1>1
<1>3. S \in SUBSET Nat /\ S # {}
  BY <1>2
<1>4. PICK m \in S : \A x \in S : m <= x
  <2> HIDE DEF S
  <2> QED
    BY <1>3, Least
<1>5. \A j \in 1..(m - 1) : j \in DOMAIN s /\ j \in DOMAIN t /\ s[j] = t[j]
  <2> SUFFICES ASSUME NEW j \in 1..(m - 1), ~(j \in DOMAIN s /\ j \in DOMAIN t /\ s[j] = t[j])
               PROVE  FALSE
    OBVIOUS
  <2>1. j \in S /\ ~(m <= j)
    OBVIOUS
  <2> QED
    BY <1>4, <2>1
<1>6. /\ m \in Nat \ {0}
      /\ ~(m \in DOMAIN s /\ m \in DOMAIN t /\ s[m] = t[m])
      /\ ~(m \in DOMAIN t /\ m \in DOMAIN s /\ t[m] = s[m])
      /\ \A j \in 1..(m - 1) : j \in DOMAIN t /\ j \in DOMAIN s /\ t[j] = s[j]
  BY <1>5
<1> HIDE DEF S
<1>7. Before(s, t) <=> m \in DOMAIN t /\ (m \in DOMAIN s => s[m] < t[m])
  BY <1>5, <1>6, BeforeAt
<1>8. Before(t, s) <=> m \in DOMAIN s /\ (m \in DOMAIN t => t[m] < s[m])
  BY <1>6, BeforeAt
<1>9. m \in DOMAIN s \/ m \in DOMAIN t
  <2> SUFFICES ASSUME m \notin DOMAIN s, m \notin DOMAIN t
               PROVE  FALSE
    OBVIOUS
  <2>1. Len(s) <= m - 1 /\ Len(t) <= m - 1
    BY <1>1, <1>6
  <2>2. Len(s) = m - 1
    <3>1. CASE m = 1
      BY <1>1, <2>1, <3>1
    <3>2. CASE m # 1
      <4>1. m - 1 \in 1..(m - 1)
        BY <1>6, <3>2
      <4> QED
        BY <1>1, <1>5, <2>1, <4>1
    <3> QED
      BY <3>1, <3>2
  <2>3. Len(t) = m - 1
    <3>1. CASE m = 1
      BY <1>1, <2>1, <3>1
    <3>2. CASE m # 1
      <4>1. m - 1 \in 1..(m - 1)
        BY <1>6, <3>2
      <4> QED
        BY <1>1, <1>5, <2>1, <4>1
    <3> QED
      BY <3>1, <3>2
  <2>4. \A j \in 1..Len(s) : s[j] = t[j]
    BY <1>5, <2>2
  <2> QED
    BY <2>2, <2>3, <2>4
<1>10. m \in DOMAIN s /\ m \in DOMAIN t => (s[m] < t[m] <=> ~(t[m] < s[m]))
  <2> SUFFICES ASSUME m \in DOMAIN s, m \in DOMAIN t
               PROVE  s[m] < t[m] <=> ~(t[m] < s[m])
    OBVIOUS
  <2>1. s[m] \in Int /\ t[m] \in Int /\ s[m] # t[m]
    BY <1>1, <1>6
  <2> QED
    BY <2>1
<1> QED
  BY <1>7, <1>8, <1>9, <1>10

-----------------------------------------------------------------------------
(* The digits of a number *)

\* The function that Decimal is defined by is there.
Writes(f, n) == f = [i \in 0..n |-> IF i < 10 THEN <<i>> ELSE Append(f[i \div 10], i % 10)]

LEMMA Tenth ==
    ASSUME NEW n \in Nat, ~(n < 10)
    PROVE  n \div 10 \in 0..(n - 1) /\ n % 10 \in 0..9 /\ n = 10 * (n \div 10) + (n % 10)
<1>1. n = 10 * (n \div 10) + (n % 10) /\ n \div 10 \in Int /\ n % 10 \in 0..9
  OBVIOUS
<1> DEFINE q == n \div 10
           r == n % 10
<1> HIDE DEF q, r
<1>2. n = 10 * q + r /\ q \in Int /\ r \in 0..9
  BY <1>1 DEF q, r
<1>3. q \in 0..(n - 1)
  BY <1>2
<1>4. n \div 10 \in 0..(n - 1)
  BY <1>3 DEF q
<1> QED
  BY <1>1, <1>4, Zenon

LEMMA WritesExists == \A n \in Nat : \E f : Writes(f, n)
<1> DEFINE S == {n \in Nat : \E f : Writes(f, n)}
           e(h, i) == IF i < 10 THEN <<i>> ELSE Append(h[i \div 10], i % 10)
<1>1. ASSUME NEW n \in Nat, \A k \in 0..(n - 1) : k \in S
      PROVE  n \in S
  <2>1. PICK f : n # 0 => Writes(f, n - 1)
    <3>1. n # 0 => n - 1 \in 0..(n - 1)
      OBVIOUS
    <3> QED
      BY <1>1, <3>1
  <2> DEFINE g == [i \in 0..n |-> IF i = n THEN e(f, i) ELSE f[i]]
  <2>2. ASSUME NEW i \in 0..n
        PROVE  g[i] = e(g, i)
    <3>1. ~(i < 10) => g[i \div 10] = f[i \div 10]
      <4> SUFFICES ASSUME ~(i < 10)
                   PROVE  g[i \div 10] = f[i \div 10]
        OBVIOUS
      <4>1. i \div 10 \in 0..(i - 1)
        BY Tenth
      <4>2. i \div 10 # n /\ i \div 10 \in 0..n
        BY <4>1
      <4> QED
        BY <4>2
    <3>2. g[i] = e(f, i)
      <4>1. CASE i = n
        BY <4>1
      <4>2. CASE i # n
        <5>1. i \in 0..(n - 1) /\ n # 0
          BY <4>2
        <5>2. f[i] = e(f, i)
          BY <2>1, <5>1 DEF Writes
        <5>3. g[i] = f[i]
          BY <4>2
        <5> QED
          BY <5>2, <5>3
      <4> QED
        BY <4>1, <4>2
    <3> HIDE DEF g
    <3> QED
      BY <3>1, <3>2
  <2>3. g = [i \in 0..n |-> e(g, i)]
    <3>1. g = [i \in 0..n |-> g[i]]
      OBVIOUS
    <3> HIDE DEF g
    <3> QED
      BY <2>2, <3>1
  <2> HIDE DEF g
  <2>4. Writes(g, n)
    BY <2>3 DEF Writes
  <2> QED
    BY <2>4
<1>2. S \in SUBSET Nat
  OBVIOUS
<1>3. \A n \in Nat : n \in S
  <2> HIDE DEF S
  <2> QED
    BY <1>1, <1>2, AllByLesser
<1> QED
  BY <1>3

LEMMA DecimalWrites ==
    \A n \in 0..TextBound :
        Decimal[n] = IF n < 10 THEN <<n>> ELSE Append(Decimal[n \div 10], n % 10)
<1>1. TextBound \in Nat
  BY Widths
<1>2. PICK f : Writes(f, TextBound)
  BY <1>1, WritesExists
<1>3. Writes(Decimal, TextBound)
  <2>1. Decimal = CHOOSE h :
            h = [i \in 0..TextBound |-> IF i < 10 THEN <<i>> ELSE Append(h[i \div 10], i % 10)]
    BY DEF Decimal
  <2>2. f = [i \in 0..TextBound |-> IF i < 10 THEN <<i>> ELSE Append(f[i \div 10], i % 10)]
    BY <1>2 DEF Writes
  <2> QED
    BY <2>1, <2>2 DEF Writes
<1> QED
  BY <1>3 DEF Writes

LEMMA DecimalParts ==
    ASSUME NEW n \in 0..TextBound
    PROVE  /\ n < 10 => Decimal[n] = <<n>>
           /\ ~(n < 10) => Decimal[n] = Append(Decimal[n \div 10], n % 10)
BY DecimalWrites, Zenon

\* A number's digits are digits, and there is one at least.
LEMMA DecimalDigits ==
    \A n \in 0..TextBound : Decimal[n] \in Seq(0..9) /\ Len(Decimal[n]) \in Nat \ {0}
<1> DEFINE S == {n \in Nat : n <= TextBound =>
                     Decimal[n] \in Seq(0..9) /\ Len(Decimal[n]) \in Nat \ {0}}
<1>1. ASSUME NEW n \in Nat, \A k \in 0..(n - 1) : k \in S
      PROVE  n \in S
  <2> SUFFICES ASSUME n <= TextBound
               PROVE  Decimal[n] \in Seq(0..9) /\ Len(Decimal[n]) \in Nat \ {0}
    OBVIOUS
  <2>1. n \in 0..TextBound /\ TextBound \in Nat
    BY Widths
  <2>2. CASE n < 10
    <3>1. Decimal[n] = <<n>>
      BY <2>1, <2>2, DecimalParts
    <3>2. n \in 0..9
      BY <2>2
    <3> HIDE DEF S
    <3> QED
      BY <3>1, <3>2
  <2>3. CASE ~(n < 10)
    <3>1. Decimal[n] = Append(Decimal[n \div 10], n % 10)
      BY <2>1, <2>3, DecimalParts
    <3>2. n \div 10 \in 0..(n - 1) /\ n % 10 \in 0..9
      BY <2>3, Tenth
    <3>3. Decimal[n \div 10] \in Seq(0..9)
      <4>1. n \div 10 \in S /\ n \div 10 <= TextBound
        BY <1>1, <2>1, <3>2
      <4> QED
        BY <4>1
    <3> HIDE DEF S
    <3> DEFINE d == Decimal[n \div 10]
               r == n % 10
    <3>4. d \in Seq(0..9) /\ r \in 0..9 /\ Decimal[n] = Append(d, r)
      BY <3>1, <3>2, <3>3
    <3> HIDE DEF d, r
    <3> QED
      BY <3>4
  <2> QED
    BY <2>2, <2>3
<1>2. \A n \in Nat : n \in S
  <2>1. S \in SUBSET Nat
    OBVIOUS
  <2> HIDE DEF S
  <2> QED
    BY <1>1, <2>1, AllByLesser
<1>3. TextBound \in Nat
  BY Widths
<1> QED
  BY <1>2, <1>3

LEMMA LastDigit ==
    ASSUME NEW s \in Seq(0..9), NEW t \in Seq(0..9), NEW i \in 0..9, NEW j \in 0..9,
           Append(s, i) = Append(t, j)
    PROVE  s = t /\ i = j
BY AppendInjective

\* Different numbers are written differently.
LEMMA DecimalInjective ==
    \A a, b \in 0..TextBound : Decimal[a] = Decimal[b] => a = b
<1> DEFINE S == {a \in Nat : \A b \in 0..TextBound :
                     a <= TextBound /\ Decimal[a] = Decimal[b] => a = b}
<1>1. ASSUME NEW a \in Nat, \A k \in 0..(a - 1) : k \in S
      PROVE  a \in S
  <2> SUFFICES ASSUME NEW b \in 0..TextBound, a <= TextBound, Decimal[a] = Decimal[b]
               PROVE  a = b
    OBVIOUS
  <2>1. a \in 0..TextBound /\ b \in 0..TextBound /\ TextBound \in Nat
    BY Widths
  <2> DEFINE p == a \div 10
             q == b \div 10
             x == a % 10
             y == b % 10
  <2>2. a < 10 => Len(Decimal[a]) = 1 /\ Decimal[a] = <<a>>
    <3>1. a < 10 => Decimal[a] = <<a>>
      BY <2>1, DecimalParts
    <3>2. Len(<<a>>) = 1
      OBVIOUS
    <3> QED
      BY <3>1, <3>2
  <2>3. b < 10 => Len(Decimal[b]) = 1 /\ Decimal[b] = <<b>>
    <3>1. b < 10 => Decimal[b] = <<b>>
      BY <2>1, DecimalParts
    <3>2. Len(<<b>>) = 1
      OBVIOUS
    <3> QED
      BY <3>1, <3>2
  <2>4. ~(a < 10) => /\ p \in 0..(a - 1) /\ x \in 0..9 /\ a = 10 * p + x
                     /\ Decimal[a] = Append(Decimal[p], x)
    BY <2>1, Tenth, DecimalParts
  <2>5. ~(b < 10) => /\ q \in 0..(b - 1) /\ y \in 0..9 /\ b = 10 * q + y
                     /\ Decimal[b] = Append(Decimal[q], y)
    BY <2>1, Tenth, DecimalParts
  <2>6. \A k \in 0..(a - 1) : \A j \in 0..TextBound : Decimal[k] = Decimal[j] => k = j
    BY <1>1, <2>1
  <2> HIDE DEF S, p, q, x, y
  <2>7. ~(a < 10) => Decimal[p] \in Seq(0..9) /\ Len(Decimal[p]) \in Nat \ {0}
    BY <2>1, <2>4, DecimalDigits
  <2>8. ~(b < 10) => Decimal[q] \in Seq(0..9) /\ Len(Decimal[q]) \in Nat \ {0}
    BY <2>1, <2>5, DecimalDigits
  <2>9. CASE a < 10 /\ b < 10
    <3>1. <<a>> = <<b>>
      BY <2>2, <2>3, <2>9
    <3> QED
      BY <3>1
  <2>10. CASE a < 10 /\ ~(b < 10)
    <3>1. Len(Append(Decimal[q], y)) = Len(Decimal[q]) + 1
      BY <2>8, <2>5, <2>10
    <3> QED
      BY <2>2, <2>5, <2>8, <2>10, <3>1
  <2>11. CASE ~(a < 10) /\ b < 10
    <3>1. Len(Append(Decimal[p], x)) = Len(Decimal[p]) + 1
      BY <2>7, <2>4, <2>11
    <3> QED
      BY <2>3, <2>4, <2>7, <2>11, <3>1
  <2>12. CASE ~(a < 10) /\ ~(b < 10)
    <3>1. Append(Decimal[p], x) = Append(Decimal[q], y)
      BY <2>4, <2>5, <2>12
    <3>2. Decimal[p] = Decimal[q] /\ x = y
      <4>1. /\ Decimal[p] \in Seq(0..9) /\ Decimal[q] \in Seq(0..9)
            /\ x \in 0..9 /\ y \in 0..9
        BY <2>4, <2>5, <2>7, <2>8, <2>12
      <4> QED
        BY <3>1, <4>1, LastDigit
    <3>3. p = q
      <4>1. q \in 0..TextBound
        BY <2>1, <2>5, <2>12
      <4> QED
        BY <2>4, <2>6, <2>12, <3>2, <4>1
    <3> QED
      BY <2>4, <2>5, <2>12, <3>2, <3>3
  <2> QED
    BY <2>9, <2>10, <2>11, <2>12
<1>2. \A a \in Nat : a \in S
  <2>1. S \in SUBSET Nat
    OBVIOUS
  <2> HIDE DEF S
  <2> QED
    BY <1>1, <2>1, AllByLesser
<1>3. TextBound \in Nat
  BY Widths
<1> QED
  BY <1>2, <1>3

LEMMA DigitsFacts ==
    ASSUME NEW n \in (-TextBound)..TextBound
    PROVE  /\ Digits(n) \in Seq(Int)
           /\ \E a \in 0..TextBound :
                 /\ n < 0 => n = -a /\ Digits(n) = <<-1>> \o Decimal[a]
                 /\ ~(n < 0) => n = a /\ Digits(n) = Decimal[a]
<1>1. TextBound \in Nat
  BY Widths
<1>2. CASE n < 0
  <2>1. -n \in 0..TextBound /\ n = -(-n)
    BY <1>1, <1>2
  <2>2. Digits(n) = <<-1>> \o Decimal[-n]
    BY <1>2 DEF Digits
  <2>3. <<-1>> \in Seq(Int) /\ Decimal[-n] \in Seq(Int)
    <3>1. Decimal[-n] \in Seq(0..9)
      BY <2>1, DecimalDigits
    <3>2. 0..9 \subseteq Int
      OBVIOUS
    <3> QED
      BY <3>1, <3>2
  <2>4. Digits(n) \in Seq(Int)
    BY <2>2, <2>3
  <2> QED
    BY <1>2, <2>1, <2>2, <2>4, Zenon
<1>3. CASE ~(n < 0)
  <2>1. n \in 0..TextBound
    BY <1>1, <1>3
  <2>2. Digits(n) = Decimal[n]
    BY <1>3 DEF Digits
  <2>3. Decimal[n] \in Seq(Int)
    <3>1. Decimal[n] \in Seq(0..9)
      BY <2>1, DecimalDigits
    <3>2. 0..9 \subseteq Int
      OBVIOUS
    <3> QED
      BY <3>1, <3>2
  <2> QED
    BY <1>3, <2>1, <2>2, <2>3, Zenon
<1> QED
  BY <1>2, <1>3

\* What is behind the sign.
LEMMA SignedInjective ==
    ASSUME NEW s \in Seq(0..9), NEW t \in Seq(0..9), s # << >>, t # << >>
    PROVE  /\ <<-1>> \o s = <<-1>> \o t => s = t
           /\ <<-1>> \o s # t
<1>1. ASSUME <<-1>> \o s = <<-1>> \o t
      PROVE  s = t
  <2>1. Len(<<-1>> \o s) = 1 + Len(s) /\ Len(<<-1>> \o t) = 1 + Len(t)
    OBVIOUS
  <2>2. Len(s) = Len(t)
    BY <1>1, <2>1
  <2>3. \A i \in 1..Len(s) : s[i] = (<<-1>> \o s)[1 + i]
    OBVIOUS
  <2>4. \A i \in 1..Len(t) : t[i] = (<<-1>> \o t)[1 + i]
    OBVIOUS
  <2> QED
    BY <1>1, <2>2, <2>3, <2>4
<1>2. (<<-1>> \o s)[1] = -1 /\ t[1] \in 0..9
  OBVIOUS
<1>3. t[1] # -1
  BY <1>2
<1> QED
  BY <1>1, <1>2, <1>3

\* No two numbers are written the same.
LEMMA DigitsInjective ==
    ASSUME NEW m \in (-TextBound)..TextBound, NEW n \in (-TextBound)..TextBound,
           Digits(m) = Digits(n)
    PROVE  m = n
<1>1. PICK a \in 0..TextBound : /\ m < 0 => m = -a /\ Digits(m) = <<-1>> \o Decimal[a]
                                /\ ~(m < 0) => m = a /\ Digits(m) = Decimal[a]
  BY DigitsFacts
<1>2. PICK b \in 0..TextBound : /\ n < 0 => n = -b /\ Digits(n) = <<-1>> \o Decimal[b]
                                /\ ~(n < 0) => n = b /\ Digits(n) = Decimal[b]
  BY DigitsFacts
<1> DEFINE s == Decimal[a]
           t == Decimal[b]
<1>3. s \in Seq(0..9) /\ t \in Seq(0..9) /\ s # << >> /\ t # << >>
  <2>1. /\ s \in Seq(0..9) /\ Len(s) \in Nat \ {0}
        /\ t \in Seq(0..9) /\ Len(t) \in Nat \ {0}
    BY DecimalDigits
  <2> HIDE DEF s, t
  <2> QED
    BY <2>1
<1>4. /\ <<-1>> \o s = <<-1>> \o t => s = t
      /\ <<-1>> \o s # t /\ <<-1>> \o t # s
  <2> HIDE DEF s, t
  <2> QED
    BY <1>3, SignedInjective
<1>5. s = t
  BY <1>1, <1>2, <1>4, Zenon
<1>6. a = b
  BY <1>5, DecimalInjective
<1>7. m < 0 <=> n < 0
  BY <1>1, <1>2, <1>4, Zenon
<1> QED
  BY <1>1, <1>2, <1>6, <1>7, Zenon

-----------------------------------------------------------------------------
(* Comparing and subtracting *)

\* Comparing is by what is printed, and changes its sign with the order of the two.
LEMMA CompareFacts ==
    ASSUME NEW v \in Value, NEW w \in Value,
           Printed(v) \in (-TextBound)..TextBound, Printed(w) \in (-TextBound)..TextBound
    PROVE  /\ Compare(v, w) = 0 <=> Printed(v) = Printed(w)
           /\ Compare(v, w) = -Compare(w, v)
<1> DEFINE s == Digits(Printed(v))
           t == Digits(Printed(w))
<1>1. s \in Seq(Int) /\ t \in Seq(Int)
  BY DigitsFacts
<1>2. s = t <=> Printed(v) = Printed(w)
  BY DigitsInjective
<1>3. /\ Compare(v, w) = IF s = t THEN 0 ELSE IF Before(s, t) THEN -1 ELSE 1
      /\ Compare(w, v) = IF t = s THEN 0 ELSE IF Before(t, s) THEN -1 ELSE 1
  BY DEF Compare
<1> HIDE DEF s, t
<1>4. s # t => (Before(s, t) <=> ~Before(t, s))
  BY <1>1, BeforeTotal
<1> QED
  BY <1>2, <1>3, <1>4

LEMMA DifferenceMod ==
    ASSUME NEW M \in Nat \ {0}, NEW x \in 0..(M - 1), NEW y \in 0..(M - 1)
    PROVE  (x - y) % M = IF y <= x THEN x - y ELSE x - y + M
<1>1. CASE y <= x
  <2>1. x - y \in 0..(M - 1)
    BY <1>1
  <2> QED
    BY <1>1, <2>1, ModSmall
<1>2. CASE ~(y <= x)
  <2>1. x - y = (-1) * M + (x - y + M) /\ x - y + M \in 0..(M - 1)
    BY <1>2
  <2> QED
    BY <1>2, <2>1, ModMultiple
<1> QED
  BY <1>1, <1>2

\* Subtracting at a width: only equal numbers give 0, and what was subtracted comes back.
LEMMA DifferenceAt ==
    ASSUME NEW M \in Nat \ {0}, NEW x \in 0..(M - 1), NEW y \in 0..(M - 1)
    PROVE  /\ (x - y) % M = 0 <=> x = y
           /\ (((x - y) % M) - ((0 - y) % M)) % M = x
<1> DEFINE a == (x - y) % M
           b == (0 - y) % M
<1>1. a = IF y <= x THEN x - y ELSE x - y + M
  BY DifferenceMod
<1>2. b = IF y <= 0 THEN 0 - y ELSE 0 - y + M
  <2>1. 0 \in 0..(M - 1)
    OBVIOUS
  <2> QED
    BY <2>1, DifferenceMod
<1> HIDE DEF a, b
<1>3. a \in 0..(M - 1) /\ b \in 0..(M - 1)
  BY <1>1, <1>2
<1>4. (a - b) % M = IF b <= a THEN a - b ELSE a - b + M
  BY <1>3, DifferenceMod
<1>5. (a - b) % M = x
  <2> DEFINE c == (a - b) % M
  <2>1. c = IF b <= a THEN a - b ELSE a - b + M
    BY <1>4
  <2> HIDE DEF c
  <2>2. c = x
    BY <1>1, <1>2, <2>1
  <2> QED
    BY <2>2 DEF c
<1>6. a = 0 <=> x = y
  BY <1>1
<1> QED
  BY <1>5, <1>6 DEF a, b

\* The same for a width with a sign.
LEMMA Low32Sub ==
    ASSUME NEW x \in (-H32)..(H32 - 1), NEW y \in (-H32)..(H32 - 1)
    PROVE  Low32(x - y) = IF x - y < -H32 THEN x - y + M32
                          ELSE IF x - y >= H32 THEN x - y - M32 ELSE x - y
<1> DEFINE n == x - y
<1>1. n \in (1 - M32)..(M32 - 1) /\ n \in Int
  BY Widths
<1> HIDE DEF n
<1>2. CASE n < -H32
  <2>1. n + H32 = (-1) * M32 + (n + H32 + M32) /\ n + H32 + M32 \in 0..(M32 - 1)
    BY <1>1, <1>2, Widths
  <2>2. (n + H32) % M32 = n + H32 + M32
    BY <2>1, Widths, ModMultiple
  <2> QED
    BY <1>1, <1>2, <2>2, Widths DEF Low32, n
<1>3. CASE n >= H32
  <2>1. n \in H32..(M32 - 1) /\ ~(n < -H32)
    BY <1>1, <1>3, Widths
  <2> QED
    BY <1>3, <2>1, Low32Facts DEF n
<1>4. CASE ~(n < -H32) /\ ~(n >= H32)
  <2>1. n \in (-H32)..(H32 - 1)
    BY <1>1, <1>4, Widths
  <2> QED
    BY <1>4, <2>1, Low32Facts DEF n
<1> QED
  BY <1>2, <1>3, <1>4

LEMMA Low32Difference ==
    ASSUME NEW x \in (-H32)..(H32 - 1), NEW y \in (-H32)..(H32 - 1)
    PROVE  /\ Low32(x - y) = 0 <=> x = y
           /\ Low32(Low32(x - y) - Low32(0 - y)) = x
<1> DEFINE a == Low32(x - y)
           b == Low32(0 - y)
           c == Low32(a - b)
<1>1. a = IF x - y < -H32 THEN x - y + M32 ELSE IF x - y >= H32 THEN x - y - M32 ELSE x - y
  BY Low32Sub
<1>2. b = IF 0 - y < -H32 THEN 0 - y + M32 ELSE IF 0 - y >= H32 THEN 0 - y - M32 ELSE 0 - y
  <2>1. 0 \in (-H32)..(H32 - 1)
    BY Widths
  <2> QED
    BY <2>1, Low32Sub
<1>3. a \in (-H32)..(H32 - 1) /\ b \in (-H32)..(H32 - 1)
  <2>1. x - y \in Int /\ 0 - y \in Int
    BY Widths
  <2> QED
    BY <2>1, Low32Facts
<1> HIDE DEF a, b
<1>4. c = IF a - b < -H32 THEN a - b + M32 ELSE IF a - b >= H32 THEN a - b - M32 ELSE a - b
  BY <1>3, Low32Sub
<1> HIDE DEF c
<1>5. c = x
  BY <1>1, <1>2, <1>3, <1>4, Widths
<1>6. a = 0 <=> x = y
  BY <1>1, Widths
<1> QED
  BY <1>5, <1>6 DEF a, b, c

\* Two numbers of one type that are printed the same are the same, also where the register
\* was not filled with the sign.
LEMMA PrintedInjective ==
    ASSUME NEW t \in Number, NEW x \in Data[t], NEW y \in Data[t]
    PROVE  /\ Printed(Val(t, x)) \in (-TextBound)..TextBound
           /\ Printed(Val(t, x)) = Printed(Val(t, y)) <=> x = y
<1>1. /\ Val(t, x).type = t /\ Val(t, x).data = x
      /\ Val(t, y).type = t /\ Val(t, y).data = y
  BY DEF Val
<1>2. CASE t = "INT32" /\ ~signs
  <2>1. x \in (-H32)..(H32 - 1) /\ y \in (-H32)..(H32 - 1)
    BY <1>2, DataFacts
  <2>2. ASSUME NEW n \in (-H32)..(H32 - 1)
        PROVE  n % M32 = IF n < 0 THEN n + M32 ELSE n
    <3>1. CASE n < 0
      <4>1. n = (-1) * M32 + (n + M32) /\ n + M32 \in 0..(M32 - 1)
        BY <3>1, Widths
      <4> QED
        BY <3>1, <4>1, Widths, ModMultiple
    <3>2. CASE ~(n < 0)
      <4>1. n \in 0..(M32 - 1) /\ M32 \in Nat \ {0}
        BY <3>2, Widths
      <4>2. n % M32 = n
        BY <4>1, ModSmall
      <4> QED
        BY <3>2, <4>2
    <3> QED
      BY <3>1, <3>2
  <2>3. Printed(Val(t, x)) = x % M32 /\ Printed(Val(t, y)) = y % M32
    BY <1>1, <1>2 DEF Printed
  <2>4. /\ Printed(Val(t, x)) = IF x < 0 THEN x + M32 ELSE x
        /\ Printed(Val(t, y)) = IF y < 0 THEN y + M32 ELSE y
    BY <2>1, <2>2, <2>3
  <2> QED
    BY <2>1, <2>4, Widths
<1>3. CASE ~(t = "INT32" /\ ~signs)
  <2>1. Printed(Val(t, x)) = x /\ Printed(Val(t, y)) = y
    BY <1>1, <1>3 DEF Printed
  <2>2. x \in (-TextBound)..TextBound
    BY DataFacts, Widths DEF Number
  <2> QED
    BY <2>1, <2>2
<1> QED
  BY <1>2, <1>3

\* Comparing two values and subtracting them (value.c:510-577) agree on equality; the order
\* that a comparison gives is one, and a difference leads back: at every width.
THEOREM CompareAndDifference == Spec => []CompareAgrees
<1>1. TypeOK => CompareAgrees
  <2> SUFFICES ASSUME TypeOK, val # NoValue, val.type \in Number \ {"OCTET"},
                      NEW d \in Data[val.type]
               PROVE  LET w == Val(val.type, d) IN
                      /\ Compare(val, w) = 0 <=> Difference(val, w) = 0
                      /\ Compare(val, w) = -Compare(w, val)
                      /\ Difference(Val(val.type, Difference(val, w)),
                                    Val(val.type, Difference(Val(val.type, 0), w))) = val.data
    BY DEF CompareAgrees
  <2> DEFINE t == val.type
             x == val.data
             w == Val(t, d)
             D(i, j) == Difference(Val(t, i), Val(t, j))
  <2>1. val \in Value /\ t \in Number \ {"OCTET"} /\ t \in Type
    BY DEF TypeOK, Type
  <2>2. val = Val(t, x) /\ x \in Data[t] /\ w \in Value
    BY <2>1, ValueFacts
  <2>3. \A i, j : Val(t, i).type = t /\ Val(t, i).data = i
    BY DEF Val
  <2>4. (D(x, d) = 0 <=> x = d) /\ D(D(x, d), D(0, d)) = x
    <3>1. CASE t = "INT32"
      <4>1. \A i, j : D(i, j) = Low32(i - j)
        BY <2>3, <3>1 DEF Difference
      <4>2. x \in (-H32)..(H32 - 1) /\ d \in (-H32)..(H32 - 1)
        BY <2>2, <3>1, DataFacts
      <4> HIDE DEF D, t, x
      <4> QED
        BY <4>1, <4>2, Low32Difference
    <3>2. CASE t # "INT32"
      <4> DEFINE M == IF t = "UINT16" THEN M16 ELSE IF t = "UINT32" THEN M32 ELSE M64
      <4>1. \A i, j : D(i, j) = (i - j) % M
        BY <2>1, <2>3, <3>2 DEF Difference, Number
      <4>2. x \in 0..(M - 1) /\ d \in 0..(M - 1) /\ M \in Nat \ {0}
        <5>1. t \in {"UINT16", "UINT32", "UINT64"}
          BY <2>1, <3>2 DEF Number
        <5>2. d \in Data[t]
          OBVIOUS
        <5> HIDE DEF t, x
        <5>3. Data[t] = 0..(M - 1)
          BY <5>1, DataFacts
        <5>4. M \in Nat \ {0}
          BY Widths
        <5> HIDE DEF M
        <5> QED
          BY <2>2, <5>2, <5>3, <5>4
      <4> HIDE DEF D, t, x, M
      <4>3. /\ (x - d) % M = 0 <=> x = d
            /\ (((x - d) % M) - ((0 - d) % M)) % M = x
        BY <4>2, DifferenceAt
      <4>4. D(x, d) = (x - d) % M /\ D(D(x, d), D(0, d)) = (D(x, d) - D(0, d)) % M
            /\ D(0, d) = (0 - d) % M
        BY <4>1, Zenon
      <4>5. D(D(x, d), D(0, d)) = (((x - d) % M) - ((0 - d) % M)) % M
        BY <4>4, Zenon
      <4> QED
        BY <4>3, <4>4, <4>5, Zenon
    <3> QED
      BY <3>1, <3>2
  <2>5. /\ Printed(val) \in (-TextBound)..TextBound /\ Printed(w) \in (-TextBound)..TextBound
        /\ Printed(val) = Printed(w) <=> x = d
    <3> HIDE DEF t, x
    <3>1. d \in Data[t] /\ t \in Number
      BY <2>1 DEF t
    <3> QED
      BY <2>2, <3>1, PrintedInjective
  <2>6. (Compare(val, w) = 0 <=> x = d) /\ Compare(val, w) = -Compare(w, val)
    <3> HIDE DEF t, x, w
    <3> QED
      BY <2>1, <2>2, <2>5, CompareFacts
  <2>7. Difference(val, w) = D(x, d)
    BY <2>2
  <2> HIDE DEF D
  <2>8. Difference(val, w) = 0 <=> x = d
    BY <2>4, <2>7
  <2> USE DEF D
  <2> QED
    BY <2>4, <2>6, <2>7, <2>8, Zenon
<1> QED
  BY <1>1, ValueTypeCorrect, PTL
=============================================================================
