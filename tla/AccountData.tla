---------------------------- MODULE AccountData ----------------------------
(***************************************************************************)
(* A number on its way from a protocol's account to the client.  The       *)
(* protocol keeps its fields one after the other in the account's data and *)
(* rewrites them as it likes; an adapter's current_value reads one of them *)
(* at the offset account_offset! gives, and leaves its low 64 bits as      *)
(* return data; the dispatcher's current_value reads those back.  The      *)
(* account a client lists may be too short, being of another kind.         *)
(***************************************************************************)
EXTENDS Layout

CONSTANTS
    Fields,     \* the fields of the layout in order: the kind of each
    Sizes,      \* sizes of accounts of other kinds
    Values,     \* per kind: the values a protocol stores
    Foreign,    \* return data left by other programs
    NoAnswer    \* no value handed back yet

Width(kind) ==
    CASE kind = "u64" -> U64_BYTES
      [] kind \in {"u128", "i128"} -> U128_BYTES
      [] kind = "pubkey" -> PUBKEY_BYTES

Positions == DOMAIN Fields

SizesBefore(f) == [n \in 1..(f - 1) |-> Width(Fields[n])]

Offset == [f \in Positions |-> account_offset(SizesBefore(f))]

FullSize == account_offset([f \in Positions |-> Width(Fields[f])])

ASSUME FieldAssumption ==
    /\ Fields \in Seq({"u64", "u128", "i128", "pubkey"})
    /\ FullSize \in 0..(USIZE - 1)
    /\ Sizes \subseteq 0..(USIZE - 1)

\* The values a type of so many bytes has.
Fits(kind, value) ==
    LET values == Place[Width(kind)]
    IN  /\ value \in Int
        /\ IF kind = "i128" THEN -values <= 2 * value /\ 2 * value < values
           ELSE 0 <= value /\ value < values

ASSUME ValueAssumption ==
    /\ \A f \in Positions : \A value \in Values[Fields[f]] : Fits(Fields[f], value)
    /\ Foreign \subseteq Seq(Digit)

VARIABLES
    data,       \* the account's bytes
    stored,     \* history: the value last stored in each field
    ret,        \* the transaction's return data
    asked,      \* history: the field the adapter has answered for, or NoAnswer
    answer      \* what the dispatcher's current_value has handed back

vars == <<data, stored, ret, asked, answer>>

\* The bytes a value is stored as: two's complement, if it is negative.
Encoded(kind, value) == to_le_bytes(value % Place[Width(kind)], Width(kind))

Reader(kind, offset) ==
    CASE kind = "u64" -> read_u64_le(data, offset)
      [] kind = "u128" -> read_u128_le(data, offset)
      [] kind = "i128" -> read_i128_le(data, offset)
      [] kind = "pubkey" -> read_pubkey(data, offset)

Init ==
    /\ \E size \in Sizes \cup {FullSize} : data = [i \in 1..size |-> 0]
    /\ stored = [f \in Positions |-> 0]
    /\ ret = <<>>
    /\ asked = NoAnswer
    /\ answer = NoAnswer

\* The protocol rewrites a field of an account of its own, in a transaction that
\* has to wait while a query holds the account.
Store(f, value) ==
    /\ Len(data) = FullSize
    /\ asked = NoAnswer
    /\ data' = [i \in DOMAIN data |->
                   IF i \in (Offset[f] + 1)..(Offset[f] + Width(Fields[f]))
                   THEN Encoded(Fields[f], value)[i - Offset[f]] ELSE data[i]]
    /\ stored' = [stored EXCEPT ![f] = value]
    /\ UNCHANGED <<ret, asked, answer>>

\* A transaction begins; a program invoked before leaves return data.
Begin ==
    /\ ret' \in Foreign
    /\ asked' = NoAnswer
    /\ answer' = NoAnswer
    /\ UNCHANGED <<data, stored>>

\* current_value of an adapter, for a field that is a number.
AdapterAnswers(f) ==
    /\ asked = NoAnswer
    /\ answer = NoAnswer
    /\ Fields[f] \in {"u64", "u128"}
    /\ LET read == Reader(Fields[f], Offset[f])
       IN  /\ read.ok
           /\ ret' = set_return_u64(as_u64(read.value))
    /\ asked' = f
    /\ UNCHANGED <<data, stored, answer>>

\* current_value of the dispatcher, after the adapter's.
DispatcherAnswers ==
    /\ answer = NoAnswer
    /\ LET read == read_return_u64(ret)
       IN  /\ read.ok
           /\ answer' = read.value
           /\ ret' = set_return_u64(read.value)
    /\ UNCHANGED <<data, stored, asked>>

Next ==
    \/ \E f \in Positions : \E value \in Values[Fields[f]] : Store(f, value)
    \/ \E f \in Positions : AdapterAnswers(f)
    \/ Begin
    \/ DispatcherAnswers

Spec == Init /\ [][Next]_vars

---------------------------------------------------------------------------
\* Each reader returns the value last stored in its field, sign included,
\* whatever has been stored in the fields beside it: the offsets of
\* account_offset!, the widths of the readers and their byte order agree with a
\* layout without gaps.
FieldsReadBack ==
    Len(data) = FullSize =>
        \A f \in Positions :
            LET read == Reader(Fields[f], Offset[f])
            IN  /\ read.ok
                /\ read.value = IF Fields[f] = "pubkey" THEN Encoded("pubkey", stored[f])
                                ELSE stored[f]

\* read_bytes succeeds exactly for slices inside the data, and then returns that
\* slice, for every offset and length a usize can hold: no sum of the two wraps
\* around into a slice that would panic or be somebody else's bytes.
SlicesStayInside ==
    \A offset, length \in 0..(USIZE - 1) :
        LET read == read_bytes(data, offset, length)
        IN  /\ read.ok <=> offset + length <= Len(data)
            /\ read.ok => /\ Len(read.value) = length
                          /\ \A i \in 1..length : read.value[i] = data[offset + i]

\* What the dispatcher hands back after an adapter has answered is the low half
\* of the field, the field itself where it is a u64, whatever return data was there
\* before; and it leaves the same return data again for the client to read.
AnswerIsLowHalf ==
    answer # NoAnswer /\ asked # NoAnswer =>
        /\ answer = stored[asked] % Place[U64_BYTES]
        /\ read_return_u64(ret) = Ok(answer)
===========================================================================
