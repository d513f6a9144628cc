----------------------------- MODULE EstatsValue -----------------------------
(***************************************************************************)
(* Values (value.c): a tagged union of numbers of four widths, addresses   *)
(* and strings.  One program makes a value, converts it in place or asks   *)
(* for it in another type, writes it to a variable of the kernel and reads *)
(* it back.  Widths are moduli, 2^8 to 2^64 in the code.                   *)
(*                                                                         *)
(* A string is what it reads as: a number in decimal, an address, or Junk. *)
(* The library is for 64-bit systems here: long has the width of UINT64.   *)
(***************************************************************************)
EXTENDS Integers, Sequences

CONSTANTS
    M8, M16,      \* the moduli of OCTET and UINT16
    H32, H64,     \* half the moduli of the wider types
    Addr4, Addr6, \* the addresses
    Junk,         \* a string that is neither a number nor an address
    TextBound,    \* bound on the numbers that strings read as
    NoValue       \* a null pointer

M32 == 2 * H32
M64 == 2 * H64

ASSUME ValueAssumption ==
    /\ {M8, M16, H32, H64, TextBound} \subseteq Nat \ {0}
    /\ M8 < M16 /\ M16 < H32 /\ M32 < H64 /\ M64 <= TextBound
    /\ H64 % M32 = 0
    /\ Addr4 \cap Addr6 = {} /\ Junk \notin Addr4 \cup Addr6

Addr == Addr4 \cup Addr6
ASSUME DataAssumption == (Addr \cup {Junk}) \cap Int = {}

Number == {"OCTET", "UINT16", "INT32", "UINT32", "UINT64"}
Type == Number \cup {"STRING", "IP4ADDR", "IP6ADDR"}

\* What the union holds for each type.
Data ==
    [OCTET |-> 0..(M8 - 1), UINT16 |-> 0..(M16 - 1), INT32 |-> (-H32)..(H32 - 1),
     UINT32 |-> 0..(M32 - 1), UINT64 |-> 0..(M64 - 1),
     STRING |-> (-TextBound)..TextBound \cup Addr \cup {Junk},
     IP4ADDR |-> Addr4, IP6ADDR |-> Addr6]

\* The non-negative numbers below it fit the type.
Room(t) ==
    CASE t = "OCTET" -> M8 [] t = "UINT16" -> M16 [] t = "INT32" -> H32
      [] t = "UINT32" -> M32 [] OTHER -> M64

Value == UNION {[type : {t}, data : Data[t]] : t \in Type}
ASSUME NoValueAssumption == NoValue \notin Value
Val(t, d) == [type |-> t, data |-> d]

VarType ==
    {"INTEGER", "INTEGER32", "COUNTER32", "GAUGE32", "UNSIGNED32", "TIME_TICKS",
     "COUNTER64", "INET_PORT_NUMBER", "INET_ADDRESS", "INET_ADDRESS_IPV4",
     "INET_ADDRESS_IPV6", "OCTET"}

\* _estats_var_type_to_value_type; INET_ADDRESS has none.
ValueType(vt) ==
    CASE vt = "COUNTER64" -> "UINT64"
      [] vt = "INET_PORT_NUMBER" -> "UINT16"
      [] vt = "INET_ADDRESS_IPV4" -> "IP4ADDR"
      [] vt = "INET_ADDRESS_IPV6" -> "IP6ADDR"
      [] vt = "OCTET" -> "OCTET"
      [] OTHER -> "UINT32"

VARIABLES
    val,     \* estats_value*
    err,     \* the result of the last call
    answer,  \* what the last estats_value_as_ returned, or NoValue
    buf,     \* a variable of the kernel: the type it has and the value written, or NoValue
    signs,   \* the build fills a register with copies of the sign, or with 0
    orig,    \* a history: the value when it was made
    narrow   \* a history: numbers below it fit each type that the value went through

vars == <<val, err, answer, buf, signs, orig, narrow>>

-----------------------------------------------------------------------------
(* Conversions *)

Reads(d) == d \notin Addr \cup {Junk}

\* strtoul and strtoull: out of range gives the largest number, a sign is taken back.
Strtoul(n) == IF n >= M64 \/ n <= -M64 THEN M64 - 1 ELSE n % M64

\* strtol: out of range gives the nearest number.
Strtol(n) == IF n >= H64 THEN H64 - 1 ELSE IF n < -H64 THEN -H64 ELSE n

\* A long assigned to an int32_t.
Low32(n) == ((n + H32) % M32) - H32

\* printf: an int32_t is passed for %ld, and its register has 64 bits.
Printed(v) == IF v.type = "INT32" /\ ~signs THEN v.data % M32 ELSE v.data

Done(v) == [val |-> v, err |-> "OK"]
Failed(v, e) == [val |-> v, err |-> e]

\* estats_value_change_type to a string.
ToString(v) == {Done(Val("STRING", Printed(v))), Failed(v, "LIBC")}

\* Mutant: the range of 16 bits is not checked.
ParseUnchecked(v, t) ==
    CASE t \in {"IP4ADDR", "IP6ADDR"} /\ v.data \in Data[t] -> Done(Val(t, v.data))
      [] t \in Number /\ Reads(v.data) ->
           Done(Val(t, IF t = "INT32" THEN Low32(Strtol(v.data)) ELSE Strtoul(v.data) % Room(t)))
      [] OTHER -> Failed(v, "LIBC")

\* estats_value_change_type from a string.  The checks let the modulus itself through.
Parse(v, t) ==
    LET n == Strtoul(v.data) IN
    IF t \in {"IP4ADDR", "IP6ADDR"} THEN
        IF v.data \in Data[t] THEN Done(Val(t, v.data)) ELSE Failed(v, "LIBC")
    ELSE IF ~Reads(v.data) THEN Failed(v, "STRING_CONVERSION")
    ELSE CASE t = "UINT16" -> IF n > M16 THEN Failed(v, "RANGE") ELSE Done(Val(t, n % M16))
           [] t = "OCTET" -> IF n > M8 THEN Failed(v, "RANGE") ELSE Done(Val(t, n % M8))
           [] t = "INT32" -> Done(Val(t, Low32(Strtol(v.data))))
           [] t = "UINT32" -> Done(Val(t, n % M32))
           [] OTHER -> Done(Val(t, n))
FromString(v, t) == {Parse(v, t), Failed(v, "LIBC")}

\* Mutant: what the first step made is given up when the second fails.
ChangeFreesValue(v, t) ==
    CASE v.type = t -> {Done(v)}
      [] v.type # t /\ t = "STRING" -> ToString(v)
      [] v.type = "STRING" /\ t # "STRING" -> FromString(v, t)
      [] OTHER -> {Failed(v, "LIBC")} \cup
           UNION {IF r.err # "OK" THEN {r} ELSE
                    {IF q.err = "OK" THEN q ELSE Failed(Val("STRING", Junk), q.err) :
                       q \in FromString(r.val, t)} : r \in ToString(v)}

\* The outcomes of estats_value_change_type.  Between other types it goes by a string,
\* and a failure of the second step leaves the caller with that.
Change(v, t) ==
    CASE v.type = t -> {Done(v)}
      [] v.type # t /\ t = "STRING" -> ToString(v)
      [] v.type = "STRING" /\ t # "STRING" -> FromString(v, t)
      [] OTHER -> {Failed(v, "LIBC")} \cup
           UNION {IF r.err # "OK" THEN {r} ELSE FromString(r.val, t) : r \in ToString(v)}

\* The estats_value_as_ functions convert a copy.  as_octet converts to 16 bits and
\* returns the byte of the union that is their low one (on a little-endian machine).
As(v, t) ==
    {Failed(v, "LIBC")} \cup
    IF t # "OCTET" THEN Change(v, t)
    ELSE {IF r.err = "OK" THEN Done(Val(t, r.val.data % M8)) ELSE r : r \in Change(v, "UINT16")}

-----------------------------------------------------------------------------
(* Two values of one type *)

\* The digits of a number, as printf writes them.
Decimal[n \in 0..TextBound] ==
    IF n < 10 THEN <<n>> ELSE Append(Decimal[n \div 10], n % 10)

\* The text that strcmp goes by: the sign sorts before the digits.
Digits(n) == IF n < 0 THEN <<-1>> \o Decimal[-n] ELSE Decimal[n]

\* Whether sequence s comes before t in the order of strcmp.
Before(s, t) ==
    \E i \in DOMAIN t :
        /\ \A j \in 1..(i - 1) : j \in DOMAIN s /\ s[j] = t[j]
        /\ i \in DOMAIN s => s[i] < t[i]

\* The sign of the result of estats_value_compare, for numbers.
Compare(v, w) ==
    LET s == Digits(Printed(v))
        t == Digits(Printed(w))
    IN  IF s = t THEN 0 ELSE IF Before(s, t) THEN -1 ELSE 1

\* Mutant: the difference is taken at 32 bits.
DifferenceNarrow(v, w) ==
    IF v.type = "INT32" THEN Low32(v.data - w.data) ELSE (v.data - w.data) % M32

\* estats_value_difference, for the four types that have one.
Difference(v, w) ==
    CASE v.type = "UINT16" -> (v.data - w.data) % M16
      [] v.type = "INT32" -> Low32(v.data - w.data)
      [] v.type = "UINT32" -> (v.data - w.data) % M32
      [] OTHER -> (v.data - w.data) % M64

-----------------------------------------------------------------------------
(* A program and its value *)

Lesser(m, n) == IF m < n THEN m ELSE n

Init ==
    /\ val = NoValue /\ err = "OK" /\ answer = NoValue /\ buf = NoValue
    /\ orig = NoValue /\ narrow = M64 /\ signs \in BOOLEAN

\* estats_value_new
New(v) ==
    /\ val = NoValue /\ buf = NoValue
    /\ \/ val' = v /\ err' = "OK" /\ orig' = v /\ narrow' = Room(v.type)
       \/ err' = "LIBC" /\ UNCHANGED <<val, orig, narrow>>
    /\ UNCHANGED <<answer, buf, signs>>

\* estats_value_free
FreeValue ==
    /\ val # NoValue
    /\ val' = NoValue /\ err' = "OK" /\ answer' = NoValue
    /\ orig' = NoValue /\ narrow' = M64
    /\ UNCHANGED <<buf, signs>>

ChangeType(t) ==
    /\ val # NoValue
    /\ \E r \in Change(val, t) :
          /\ val' = r.val /\ err' = r.err
          /\ narrow' = IF r.err = "OK" THEN Lesser(narrow, Room(t)) ELSE narrow
    /\ answer' = NoValue
    /\ UNCHANGED <<buf, signs, orig>>

AskAs(t) ==
    /\ val # NoValue
    /\ \E r \in As(val, t) :
          /\ err' = r.err
          /\ answer' = IF r.err = "OK" THEN r.val ELSE NoValue
    /\ UNCHANGED <<val, buf, signs, orig, narrow>>

\* _estats_value_to_var_buf, as writevar uses it: the value is freed afterwards.  The
\* value of buf is the bytes; the kernel keeps them.
Write(vt) ==
    /\ val # NoValue /\ buf = NoValue
    /\ \E r \in IF vt = "INET_ADDRESS" THEN {Failed(val, "UNKNOWN_TYPE"), Failed(val, "LIBC")}
                ELSE {Failed(val, "LIBC")} \cup Change(val, ValueType(vt)) :
          /\ err' = r.err
          /\ \/ /\ r.err = "OK"
                /\ buf' = [type |-> vt, data |-> r.val.data]
                /\ narrow' = Lesser(narrow, Room(ValueType(vt)))
                /\ val' = NoValue /\ UNCHANGED orig
             \/ r.err # "OK" /\ UNCHANGED <<val, buf, orig, narrow>>
    /\ answer' = NoValue /\ UNCHANGED signs

\* The kernel shows an address of its own, with its family behind it.
KernelShows(a) ==
    /\ val = NoValue /\ buf = NoValue
    /\ buf' = [type |-> "INET_ADDRESS", data |-> a]
    /\ orig' = Val(IF a \in Addr4 THEN "IP4ADDR" ELSE "IP6ADDR", a)
    /\ UNCHANGED <<val, err, answer, signs, narrow>>

\* _estats_value_from_var_buf: the family tells how much of the buffer is the address.
Read ==
    /\ val = NoValue /\ buf # NoValue
    /\ \/ /\ val' = Val(IF buf.type # "INET_ADDRESS" THEN ValueType(buf.type)
                        ELSE IF buf.data \in Addr4 THEN "IP4ADDR" ELSE "IP6ADDR", buf.data)
          /\ buf' = NoValue /\ err' = "OK"
       \/ err' = "LIBC" /\ UNCHANGED <<val, buf>>
    /\ UNCHANGED <<answer, signs, orig, narrow>>

Next ==
    \/ \E v \in Value : New(v)
    \/ FreeValue
    \/ \E t \in Type : ChangeType(t) \/ AskAs(t)
    \/ \E vt \in VarType : Write(vt)
    \/ \E a \in Addr : KernelShows(a)
    \/ Read

Spec == Init /\ [][Next]_vars

-----------------------------------------------------------------------------
(* Properties *)

TypeOK ==
    /\ val \in Value \cup {NoValue} /\ orig \in Value \cup {NoValue}
    /\ answer \in Value \cup {NoValue}
    /\ err \in {"OK", "LIBC", "RANGE", "STRING_CONVERSION", "UNKNOWN_TYPE"}
    /\ buf # NoValue => buf.type \in VarType
    /\ narrow \in {M8, M16, H32, M32, M64} /\ signs \in BOOLEAN

\* A number that fits each type a value has been converted to, in calls that succeeded, is
\* still its number, however many calls failed in between and half way: also when it went to
\* the kernel and back, and when it is asked for in a type that it fits.  An address stays.
Survives(d) ==
    LET n == orig.data IN
    CASE n \in Addr \cup {Junk} -> d = n
      [] OTHER -> 0 <= n /\ n < narrow => d = n
NumberSurvives ==
    orig # NoValue =>
      /\ val # NoValue => Survives(val.data)
      /\ /\ val # NoValue /\ answer # NoValue /\ Reads(orig.data)
         /\ orig.data \in 0..(Lesser(narrow, Room(answer.type)) - 1)
         => answer.data = orig.data

\* What the range checks make of the number that the value was: itself, or 0 of the
\* modulus, which they let through.
InRange(d) == d = orig.data \/ (d = 0 /\ orig.data \in {M8, M16})

\* A number that 32 bits hold is not cut to 16 or 8 bits but refused, except the modulus
\* itself, which becomes 0 (value.c:319, :342); whether the value is converted in place or
\* asked for.  estats_value_as_octet checks it for 16 bits only, and then cuts it to its
\* low byte without an error (value.c:493-507): that byte is of a number in range.
RangeChecked ==
    val # NoValue /\ orig.data \in 0..(M32 - 1) =>
      /\ val.type \in {"UINT16", "OCTET"} => InRange(val.data)
      /\ answer # NoValue =>
            /\ answer.type = "UINT16" => InRange(answer.data)
            /\ answer.type = "OCTET" => \E d \in 0..(M16 - 1) : InRange(d) /\ answer.data = d % M8

\* Comparing and subtracting agree on which values are equal, a comparison is the opposite of
\* the one the other way round, and a difference leads from one value to the other.
CompareAgrees ==
    val # NoValue /\ val.type \in Number \ {"OCTET"} =>
      \A d \in Data[val.type] :
          LET w == Val(val.type, d) IN
          /\ Compare(val, w) = 0 <=> Difference(val, w) = 0
          /\ Compare(val, w) = -Compare(w, val)
          /\ Difference(Val(val.type, Difference(val, w)), Val(val.type, Difference(Val(val.type, 0), w))) = val.data
=============================================================================
