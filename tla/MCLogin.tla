------------------------------ MODULE MCLogin ------------------------------
(* Small instance of Login for TLC: a panel open twice and the host's page. *)
EXTENDS Login

CONSTANTS l1, panel1, panel2, page

OneLogin == {l1}
ThreePollers == {panel1, panel2, page}
TwoPanels == {panel1, panel2}
=============================================================================
