---------------------------- MODULE MCEntrySetup ----------------------------
(***************************************************************************)
(* Instances of EntrySetup for TLC: camera a is a 3667, camera b one of    *)
(* the two models whose command service answers on the LAN.                *)
(***************************************************************************)
EXTENDS EntrySetup

CONSTANTS a, b

\* What the cloud knows of a camera: its model, whether it has Orbweb
\* credentials, the lists it appears in, and whether its MAC is known.
Account(model, orbweb, lists, mac) ==
    [model |-> model, orbweb |-> orbweb, lists |-> lists, mac |-> mac]

Account3667 ==
    {Account("3667", TRUE, {"subscription"}, TRUE),
     Account("3667", TRUE, {"own", "subscription"}, TRUE),
     Account("3667", TRUE, {"own", "subscription"}, FALSE),
     Account("3667", FALSE, {}, TRUE)}
AccountLan == {Account(model, TRUE, {"own"}, TRUE) : model \in {"0667", "0085"}}

MCAccounts == {f \in [Cameras -> Account3667 \cup AccountLan] :
                  f[a] \in Account3667 /\ f[b] \in AccountLan}

\* A control of camera a that this release does not have.
MCLeftovers == {<<a, "contrast_setting">>}

\* The options of a user with an account and one address, and of one with
\* addresses only.
MCOptions == {[login |-> TRUE, hosts |-> {1}, ids |-> {a}],
              [login |-> FALSE, hosts |-> {1, 2}, ids |-> {}]}
=============================================================================
