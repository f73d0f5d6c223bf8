--------------------------- MODULE MCWebhookOutbox ---------------------------
(***************************************************************************)
(* Instances of WebhookOutbox for TLC.                                     *)
(***************************************************************************)
EXTENDS WebhookOutbox

CONSTANTS r1, r2, c1, c2, w1, w2

OneRow  == {r1}
TwoRows == {r1, r2}
OnePoller  == {c1}
TwoPollers == {c1, c2}
OneWorker  == {w1}
TwoWorkers == {w1, w2}
=============================================================================
