------------------------------- MODULE Layout -------------------------------
(***************************************************************************)
(* The byte readers of the interface crate, crates/yield-adapter-interface *)
(* layout.rs, its offset macros and the encoding of return data.  Byte     *)
(* strings are sequences of digits; a u64 is U64_BYTES of them, a u128     *)
(* twice and a public key four times as many.                              *)
(***************************************************************************)
EXTENDS Integers, Sequences

CONSTANTS
    BASE,       \* how many values a byte has
    U64_BYTES,  \* the bytes of a u64
    USIZE       \* how many values a usize has

ASSUME LayoutAssumption ==
    /\ BASE \in Nat \ {0, 1}
    /\ U64_BYTES \in Nat \ {0}
    /\ USIZE \in Nat

Digit == 0..(BASE - 1)

U128_BYTES == 2 * U64_BYTES

PUBKEY_BYTES == 4 * U64_BYTES

\* What a Result holds.
Ok(value) == [ok |-> TRUE, value |-> value]

Error(code) == [ok |-> FALSE, code |-> code]

(***************************************************************************)
(* Little-endian numbers.                                                  *)
(***************************************************************************)
\* What a digit counts for by its place: BASE to the n, n digits before it.
Place[n \in Nat] == IF n = 0 THEN 1 ELSE BASE * Place[n - 1]

from_le_bytes(bytes) ==
    LET sum[n \in 0..Len(bytes)] ==
            IF n = 0 THEN 0 ELSE bytes[n] * Place[n - 1] + sum[n - 1]
    IN  sum[Len(bytes)]

to_le_bytes(value, width) == [i \in 1..width |-> (value \div Place[i - 1]) % BASE]

\* i128::from_le_bytes: the upper half of the values are negative.
from_le_signed(bytes) ==
    LET value == from_le_bytes(bytes)
        values == Place[Len(bytes)]
    IN  IF 2 * value < values THEN value ELSE value - values

\* Mutant: a value that does not fit is reported as the greatest.
as_u64_saturating(value) ==
    IF value < Place[U64_BYTES] THEN value ELSE Place[U64_BYTES] - 1

\* "as u64" of a wider integer.
as_u64(value) == value % Place[U64_BYTES]

(***************************************************************************)
(* The readers.                                                            *)
(***************************************************************************)
\* Mutant: the end of the slice is computed with a wrapping addition.
read_bytes_wrapping(data, offset, length) ==
    LET end == (offset + length) % USIZE
    IN  IF Len(data) < end THEN Error("AccountDataTooShort")
        ELSE Ok(SubSeq(data, offset + 1, end))

read_bytes(data, offset, length) ==
    LET end == offset + length
    IN  CASE end >= USIZE -> Error("OffsetOverflow")
          [] end < USIZE /\ Len(data) < end -> Error("AccountDataTooShort")
          [] OTHER -> Ok(SubSeq(data, offset + 1, end))

\* The number the bytes read encode, if there are enough.
Unsigned(bytes) == IF bytes.ok THEN Ok(from_le_bytes(bytes.value)) ELSE bytes

read_u64_le(data, offset) == Unsigned(read_bytes(data, offset, U64_BYTES))

read_u128_le(data, offset) == Unsigned(read_bytes(data, offset, U128_BYTES))

read_i128_le(data, offset) ==
    LET bytes == read_bytes(data, offset, U128_BYTES)
    IN  IF bytes.ok THEN Ok(from_le_signed(bytes.value)) ELSE bytes

read_pubkey(data, offset) == read_bytes(data, offset, PUBKEY_BYTES)

(***************************************************************************)
(* account_offset! and define_account_offsets!: a field begins where the   *)
(* sizes before it end.                                                    *)
(***************************************************************************)
\* Mutant: the base of the sum is left out.
AccountOffsetWithoutBase(sizes) ==
    LET sum[n \in 0..Len(sizes)] == IF n <= 1 THEN 0 ELSE sum[n - 1] + sizes[n]
    IN  sum[Len(sizes)]

account_offset(sizes) ==
    LET sum[n \in 0..Len(sizes)] == IF n = 0 THEN 0 ELSE sum[n - 1] + sizes[n]
    IN  sum[Len(sizes)]

(***************************************************************************)
(* Return data.  The runtime reports none when it is empty.                *)
(***************************************************************************)
set_return_u64(value) == to_le_bytes(value, U64_BYTES)

read_return_u64(data) ==
    CASE data = <<>> -> Error("MissingReturnData")
      [] data # <<>> /\ Len(data) < U64_BYTES -> Error("InvalidReturnData")
      [] OTHER -> Ok(from_le_bytes(SubSeq(data, 1, U64_BYTES)))
===========================================================================
