-------------------------- MODULE MCWebhookDelivery --------------------------
(* Two applications and a push that is delivered twice, for TLC. *)
EXTENDS WebhookDelivery
CONSTANTS app1, app2, push1, a1, a2, main, dev, i1, i2

TwoApps == {app1, app2}
OneDelivery == {push1}
TwoAttempts == {a1, a2}
TwoBranches == {main, dev}
TwoInstallations == {i1, i2}
=============================================================================
