----------------------------- MODULE MCSession -------------------------------
(* Two clients: c1 sends commands of every kind, c2 uses prepared statements. *)
(* The byte of the packet numbers has two bits.                               *)
EXTENDS Session, TLC

CONSTANTS c1, c2

TwoConns == {c1, c2}

Account(user, anyHost, password) == [user |-> user, anyHost |-> anyHost, password |-> password]
Users == <<Account("app", FALSE, "b"), Account("root", TRUE, "a"), Account("root", FALSE, "c")>>
Guest == [user |-> "guest", password |-> "p"]

Secret(user, password) == [user |-> user, proof |-> password]
SomeLogins == {Secret("root", "a"), Secret("root", "p"), Secret("guest", "p")}

Command(op, arg, id) == [op |-> op, arg |-> arg, id |-> id, seq |-> 0]

UseDB      == Command("initDB", "elsewhere", 0)
Read       == Command("query", "read", 0)
Prepare(q) == Command("stmtPrepare", q, 0)
Run(i)     == Command("stmtExecute", "", i)
Forget(i)  == Command("stmtClose", "", i)
Quit       == Command("quit", "", 0)

SomeCommands == {UseDB, Read, Prepare("one"), Prepare("two"),
                 Run(0), Run(1), Forget(1), Quit}

Various ==
  (c1 :> {Secret("root", "a"), Secret("root", "p"), Read, Prepare("one"), Forget(1), Quit})
    @@ (c2 :> {Secret("guest", "p"), UseDB, Prepare("two"), Run(1)})

(* Clients that name the id they were told. *)
Told ==
  (c1 :> {Secret("root", "a"), Prepare("one"), Run(0)})
    @@ (c2 :> {Secret("root", "a"), Prepare("two"), Run(0)})

Marks == [q \in {"read", "one", "two"} |-> IF q = "two" THEN 2 ELSE 0]

Outcome(error, n, m) == [error |-> error, columns |-> n, rows |-> m]
SomeResults == [q \in {"read", "one", "two"} |->
  IF q = "read" THEN {Outcome(TRUE, 0, 0), Outcome(FALSE, 2, 1)} ELSE {Outcome(FALSE, 0, 0)}]
=============================================================================
