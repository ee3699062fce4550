------------------------------ MODULE MCWebhook -----------------------------
EXTENDS WebhookHistory, TLC

CONSTANTS a, b, c, s, t

MCSecret == (a :> s) @@ (b :> s) @@ (c :> t)
=============================================================================
