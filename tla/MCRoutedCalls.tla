--------------------------- MODULE MCRoutedCalls ---------------------------
(***************************************************************************)
(* Small instances of dispatcher and adapters: every adapter, every        *)
(* selector and one that is unknown, extra_data of 0 to 5 bytes, account   *)
(* lists that are too short, just right, and with the signer in or out of  *)
(* its place.                                                              *)
(***************************************************************************)
EXTENDS RoutedCallsProperties

CONSTANTS boss, user, other, none, usdc, s1,
          position, token, reserve, short, filler

MCKeys == {boss, user, other, none}

MCAddresses == MCKeys \cup {position, token, reserve, short, filler}

\* A u64 has 8 values here.  Neighbouring fields of a position differ, and some do
\* not fit a u64.
MCOnChain == [a \in MCAddresses |->
    CASE a = position -> [token |-> FALSE, size |-> 200, at |-> [o \in Offsets |-> 9 + o \div 8]]
      [] a = token    -> [token |-> TRUE,  size |-> 165, at |-> [o \in Offsets |-> o \div 16]]
      [] a = reserve  -> [token |-> FALSE, size |-> 500, at |-> [o \in Offsets |-> o \div 32]]
      [] a = short    -> [token |-> FALSE, size |-> 55,  at |-> [o \in Offsets |-> 3]]
      [] OTHER        -> [token |-> FALSE, size |-> 0,   at |-> [o \in Offsets |-> 0]]]

Listed(key, signer, writable) == [key |-> key, signer |-> signer, writable |-> writable]

Filler(n) == [i \in 1..n |-> Listed(filler, FALSE, FALSE)]

\* Extra_data: a selector and up to four bytes of arguments.
Extras(selectors) ==
    {<<>>} \cup {<<s>> : s \in selectors} \cup {<<s, 5>> : s \in selectors}
    \cup {<<s, 5, 6>> : s \in selectors} \cup {<<s, 5, 6, 1>> : s \in selectors}
    \cup {<<s, 5, 6, 1, 4>> : s \in selectors}

\* The lists for deposits and withdrawals: 14 accounts, or 18 with the user, a
\* second signer or somebody who did not sign in the sender's place.
CallLists == {
    <<Listed(user, TRUE, TRUE), Listed(position, FALSE, TRUE)>> \o Filler(12),
    <<Listed(position, FALSE, TRUE), Listed(filler, FALSE, FALSE),
      Listed(position, FALSE, FALSE), Listed(user, FALSE, FALSE)>> \o Filler(14),
    Filler(3) \o <<Listed(other, TRUE, FALSE), Listed(user, FALSE, TRUE)>> \o Filler(13),
    Filler(3) \o <<Listed(other, FALSE, FALSE)>> \o Filler(14),
    Filler(17) }

\* The lists for current_value: the account alone, or the signer after it.
ValueLists ==
    {<<>>} \cup
    UNION {{ <<Listed(a, FALSE, FALSE)>>,
             <<Listed(a, FALSE, FALSE), Listed(user, FALSE, FALSE)>> } :
           a \in {position, token, reserve, short}}

AllPayloads ==
    [extra : Extras(0..4), accounts : CallLists]
    \cup [extra : {<<>>}, accounts : ValueLists]

\* Two lists for deposits and withdrawals, between them fit for every adapter,
\* and selectors of every kind of instruction data.
FewPayloads ==
    [extra : {<<0, 5, 6, 1>>, <<1, 5, 6, 1>>, <<1, 5, 6>>, <<1>>, <<2, 5, 6>>},
     accounts : {<<Listed(user, TRUE, TRUE)>> \o Filler(13),
                 Filler(3) \o <<Listed(user, TRUE, TRUE)>> \o Filler(14)}]
    \cup [extra : {<<>>},
          accounts : {<<>>, <<Listed(position, FALSE, FALSE), Listed(user, FALSE, FALSE)>>,
                      <<Listed(reserve, FALSE, FALSE)>>}]

MCInstruction(op, program, amount, extra) ==
    [op |-> op, signer |-> user, adapter |-> <<program, boss>>, mint |-> usdc,
     status |-> Active, amount |-> amount, extra |-> extra]

RegisterAll ==
    LET Register(program) ==
            [MCInstruction("adapter_init", program, 0, 0) EXCEPT !.signer = boss]
    IN  << [MCInstruction("registry_init", KAMINO, 0, 0) EXCEPT !.signer = boss],
           Register(KAMINO), Register(MARGINFI), Register(JUPITER),
           Register(MAPLE), Register(DRIFT), Register(MOCK) >>

Toggling(program) == [MCInstruction("toggle_adapter", program, 0, 0) EXCEPT !.signer = boss]

\* Every call by itself.
CallTransactions ==
    {RegisterAll}
    \cup {<<MCInstruction(op, program, 3, n)>> :
             op \in {"deposit", "withdraw"}, program \in Programs, n \in 0..5}
    \cup {<<MCInstruction("current_value", program, 0, 0)>> : program \in Programs}

\* Calls that follow one another in one transaction, with a toggle between.
MixedTransactions == {
    RegisterAll,
    <<MCInstruction("deposit", DRIFT, 3, 4), MCInstruction("withdraw", KAMINO, 2, 1),
      MCInstruction("current_value", DRIFT, 0, 0)>>,
    <<MCInstruction("withdraw", DRIFT, 2, 1), MCInstruction("deposit", MOCK, 1, 0),
      MCInstruction("deposit", KAMINO, 1, 1)>>,
    <<MCInstruction("current_value", KAMINO, 0, 0), MCInstruction("withdraw", DRIFT, 1, 3),
      MCInstruction("deposit", MAPLE, 2, 4)>>,
    <<MCInstruction("deposit", DRIFT, 1, 3), MCInstruction("withdraw", JUPITER, 2, 3)>>,
    <<MCInstruction("deposit", DRIFT, 2, 1), MCInstruction("deposit", MARGINFI, 1, 4)>>,
    <<MCInstruction("current_value", MARGINFI, 0, 0),
      MCInstruction("current_value", JUPITER, 0, 0)>>,
    <<Toggling(MAPLE)>> }

\* Bound: exploration goes up to the first transaction with a call.
OneCallTransaction == published.calls = <<>>
===========================================================================
