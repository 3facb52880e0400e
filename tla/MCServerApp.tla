----------------------------- MODULE MCServerApp -----------------------------
(* A part of the menu of the example (serv-factory.cpp:91-144): the sessions, *)
(* with a list below, and the tester present command.                         *)
EXTENDS ServerApp

CONSTANTS sessctrl, tester, defsess, extsess

MCItems == {sessctrl, tester, defsess, extsess}
MCNextOf == [i \in MCItems |->
    IF i = sessctrl THEN tester ELSE IF i = defsess THEN extsess ELSE NoItem]
MCDownOf == [i \in MCItems |-> IF i = sessctrl THEN defsess ELSE NoItem]

=============================================================================
