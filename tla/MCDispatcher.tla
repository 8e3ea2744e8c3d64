--------------------------- MODULE MCDispatcher ---------------------------
(***************************************************************************)
(* Small instances of the dispatcher: the transactions its clients send.   *)
(***************************************************************************)
EXTENDS DispatcherProperties, TLC

CONSTANTS boss, alice, user, other, none, p1, p2, usdc, s1, s2, s3

\* Transactions in flight are interchangeable.
SlotSymmetry == Permutations(Slots)

MCKeys == {boss, alice, user, other, none}

MCAccount(op, signer, program, authority) ==
    [op |-> op, signer |-> signer, adapter |-> <<program, authority>>,
     mint |-> usdc, status |-> Active, amount |-> 0, extra |-> 0]

InitRegistry(signer) == MCAccount("registry_init", signer, p1, alice)

Register(signer, program, authority, status) ==
    [MCAccount("adapter_init", signer, program, authority) EXCEPT !.status = status]

RegisterMint(signer, program, authority, mint) ==
    [MCAccount("adapter_init", signer, program, authority) EXCEPT !.mint = mint]

ToggleIt(signer, program, authority) ==
    MCAccount("toggle_adapter", signer, program, authority)

DepositTo(signer, program, authority, extra) ==
    [MCAccount("deposit", signer, program, authority) EXCEPT !.amount = 1, !.extra = extra]

WithdrawFrom(signer, program, authority) ==
    [MCAccount("withdraw", signer, program, authority)
        EXCEPT !.amount = 2, !.extra = EXTRA_DATA_MAX_LEN]

ValueOf(signer, program, authority) ==
    MCAccount("current_value", signer, program, authority)

\* Registry and entries: the right and the wrong signers, every status byte
\* that matters, entries registered and toggled in one transaction, the same
\* program under two authorities, and a toggle that comes with a failing call.
LifecycleTransactions == {
    <<InitRegistry(boss)>>,
    <<InitRegistry(user)>>,
    <<InitRegistry(boss), Register(boss, p1, alice, Paused)>>,
    <<Register(boss, p1, alice, Active)>>,
    <<Register(boss, p1, boss, Active), ToggleIt(boss, p1, boss)>>,
    <<Register(boss, p1, boss, Deprecated)>>,
    <<Register(boss, p1, boss, 3)>>,
    <<Register(boss, p1, none, Active)>>,
    <<RegisterMint(boss, p1, alice, none)>>,
    <<Register(user, p1, user, Active)>>,
    <<ToggleIt(alice, p1, alice)>>,
    <<ToggleIt(alice, p1, alice), ToggleIt(alice, p1, alice)>>,
    <<ToggleIt(boss, p1, boss)>>,
    <<ToggleIt(user, p1, alice)>>,
    <<ToggleIt(alice, p1, alice), DepositTo(user, p1, alice, 0)>> }

\* Calls of two users through the entries of two programs, racing with toggles
\* of the same entries and with transactions that toggle and call at once.
RoutingTransactions == {
    <<InitRegistry(boss), Register(boss, p1, alice, Active),
      Register(boss, p2, boss, Active)>>,
    <<ToggleIt(alice, p1, alice)>>,
    <<DepositTo(user, p1, alice, 0), WithdrawFrom(user, p2, boss)>>,
    <<DepositTo(user, p2, boss, 0), DepositTo(user, p1, alice, EXTRA_DATA_MAX_LEN + 1)>>,
    <<ValueOf(user, p1, alice), ValueOf(user, p2, boss)>>,
    <<WithdrawFrom(other, p1, alice)>>,
    <<DepositTo(alice, p1, alice, 0), ToggleIt(alice, p1, alice)>> }

\* Two instructions of different kinds in one transaction, the second of which
\* can fail: everything the first did is to disappear with it.
OverlapTransactions == {
    <<InitRegistry(boss), Register(boss, p1, alice, Active)>>,
    <<ToggleIt(alice, p1, alice)>>,
    <<ToggleIt(alice, p1, alice), ValueOf(alice, p1, alice)>>,
    <<DepositTo(user, p1, alice, 0), ValueOf(user, p1, alice)>>,
    <<WithdrawFrom(other, p1, alice)>> }
===========================================================================
