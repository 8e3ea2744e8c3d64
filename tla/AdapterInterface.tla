------------------------- MODULE AdapterInterface -------------------------
(***************************************************************************)
(* The shared interface crate, crates/yield-adapter-interface: what the    *)
(* dispatcher and every adapter program agree on.  Byte strings are kept   *)
(* only as far as the programs tell them apart: the dispatcher looks at    *)
(* the length of extra_data, never at its bytes, and return data is        *)
(* empty, too short to hold a u64, or a u64.                               *)
(***************************************************************************)
EXTENDS Naturals

CONSTANTS
    Value,      \* the u64 values an adapter may report
    TooShort,   \* return data of 1 to 7 bytes
    Empty       \* no return data

ASSUME ReturnDataAssumption ==
    /\ {TooShort, Empty} \cap Value = {}
    /\ TooShort # Empty

\* The longest extra_data the dispatcher forwards, in bytes.
EXTRA_DATA_MAX_LEN == 64

(***************************************************************************)
(* AdapterStatus and its encoding.  An entry stores the u8, so a status is *)
(* a byte here; ValidStatus is from_u8(value).is_some().                   *)
(***************************************************************************)
Active     == 0
Paused     == 1
Deprecated == 2

Byte == 0..255

ValidStatus(value) == value \in {Active, Paused, Deprecated}

IsActive(value) == value = Active

(***************************************************************************)
(* Solana keeps one return-data slot per transaction: the bytes last set   *)
(* and the program that set them.                                          *)
(***************************************************************************)
ReturnData == Value \cup {TooShort, Empty}

ReturnSlot(programs) == [by : programs, data : ReturnData]

\* Mutant: the length of the data is not looked at.
HasReturnData(slot) == slot.data # Empty

\* read_return_u64 succeeds when somebody has set at least 8 bytes: the code
\* drops the setter, which get_return_data also reports.
HasReturnU64(slot) == slot.data \notin {TooShort, Empty}
===========================================================================
