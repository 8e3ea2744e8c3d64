--------------------------- MODULE MCDriftStake ---------------------------
(***************************************************************************)
(* Small instances of the insurance fund: bytes of four values and numbers *)
(* of two of them; extra_data without a market index, with half of one,    *)
(* with one, and with one or two bytes behind it, which a client who adds  *)
(* to a stake does not pass in the first instance, and does in the second. *)
(***************************************************************************)
EXTENDS DriftStake

CONSTANTS boss, alice, bob, none, usdc

MCKeys == {boss, alice, bob, none}

MCOnChain == [a \in MCKeys |->
    [token |-> FALSE, size |-> 0, at |-> [offset \in Offsets |-> 0]]]

TwoMarkets == {<<0, 0>>, <<1, 0>>}

\* Extra_data with this selector: cut short, with a market index, and with more.
Short(selector) == {<<>>, <<selector>>, <<selector, 1>>}
Exact(selector) == {<<selector>> \o m : m \in Markets}
Long(selector) ==
    {<<selector>> \o m \o rest : m \in Markets, rest \in {<<1>>, <<2, 0>>}}

Any(selector) == Short(selector) \cup Exact(selector) \cup Long(selector)

MCWithdrawExtras == UNION {Any(selector) : selector \in 0..2}

MCDepositExtras == Any(0) \cup Short(1) \cup Exact(1) \cup Any(2)
===========================================================================
