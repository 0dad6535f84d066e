------------------------------ MODULE MCServices ------------------------------
(* Instances for TLC of the smaller components. They share no state, so they   *)
(* are checked side by side: a behaviour picks one of them at the start and    *)
(* the others stand still.                                                     *)
EXTENDS IdempotencyKey, CancellationSaga, CheckoutSaga, Accounts, Sessions, CartLine,
        ServerLifecycle, PortfolioBackup, TLC

CONSTANTS q1, q2, q3, e1, e2, g1, g2, c1, c2, c3, c4, v1, v2

VARIABLE focus

Everything == <<focus, keyVars, cancelVars, checkoutSagaVars, accountVars, sessionVars,
                cartVars, serverVars, backupVars>>

\* Two retries of one request, and another body under the same key.
Bodies == [r \in Requests |-> IF r = q3 THEN "other" ELSE "same"]

\* One subject that comes with two emails, three times; and an email not verified.
Claimed(s, e, v) == [subject |-> s, email |-> e, verified |-> v]
Identities ==
  (c1 :> Claimed(g1, e1, TRUE)) @@ (c2 :> Claimed(g1, e2, TRUE)) @@
  (c3 :> Claimed(g2, e1, FALSE)) @@ (c4 :> Claimed(g1, e1, TRUE))

\* Sign-ins with and without a registration; a link opened twice, with a second link;
\* and a mail with as many failures as its job survives, and one more.
Scene(mails, calls, visits, resends, failures) ==
  [emails |-> mails, callbacks |-> calls, visits |-> visits, resends |-> resends, faults |-> failures]
NoScene == Scene({}, {}, {}, 0, 0)
Stage == {NoScene, Scene({e1}, {c1, c2}, {}, 0, 0), Scene({}, {c1, c2, c3, c4}, {}, 0, 0),
          Scene({e1}, {}, {v1, v2}, 1, 1), Scene({e1}, {}, {}, 0, 2), Scene({e1}, {}, {}, 0, 3)}

Parts == {"key", "cancellation", "checkout", "accounts", "session", "cart", "server", "backup"}

ServicesInit ==
  /\ focus \in Parts
  /\ KeyInit /\ CancelInit /\ CheckoutSagaInit /\ AccountsInit /\ SessionsInit
  /\ CartInit /\ ServerInit /\ BackupInit
  /\ focus # "cancellation" => paid
  /\ focus # "checkout" => payable
  /\ focus = "accounts" <=> scene # NoScene

sagaVars  == <<cancelVars, checkoutSagaVars>>
userVars  == <<accountVars, sessionVars, cartVars>>
machineVars == <<serverVars, backupVars>>

ServicesNext ==
  /\ UNCHANGED focus
  /\ \/ focus = "key" /\ KeyNext /\ UNCHANGED <<sagaVars, userVars, machineVars>>
     \/ focus = "cancellation" /\ CancelNext /\ UNCHANGED <<keyVars, checkoutSagaVars, userVars, machineVars>>
     \/ focus = "checkout" /\ CheckoutSagaNext /\ UNCHANGED <<keyVars, cancelVars, userVars, machineVars>>
     \/ focus = "accounts" /\ AccountsNext /\ UNCHANGED <<keyVars, sagaVars, sessionVars, cartVars, machineVars>>
     \/ focus = "session" /\ SessionsNext /\ UNCHANGED <<keyVars, sagaVars, accountVars, cartVars, machineVars>>
     \/ focus = "cart" /\ CartNext /\ UNCHANGED <<keyVars, sagaVars, accountVars, sessionVars, machineVars>>
     \/ focus = "server" /\ ServerNext /\ UNCHANGED <<keyVars, sagaVars, userVars, backupVars>>
     \/ focus = "backup" /\ BackupNext /\ UNCHANGED <<keyVars, sagaVars, userVars, serverVars>>

\* A component that stands still has nothing due: its fairness asks nothing of it.
ServicesSpec ==
  /\ ServicesInit /\ [][ServicesNext]_Everything
  /\ AccountsFairness /\ ServerFairness

\* Every variable keeps its type.
ServicesTypeOK ==
  /\ KeyTypeOK /\ CancelTypeOK /\ CheckoutSagaTypeOK /\ AccountsTypeOK
  /\ SessionsTypeOK /\ CartTypeOK /\ ServerTypeOK /\ BackupTypeOK
=============================================================================
