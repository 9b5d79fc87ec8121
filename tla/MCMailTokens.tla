---------------------------- MODULE MCMailTokens ----------------------------
(* A verification token outlives a reset token, and both their cooldowns. *)
EXTENDS MailTokens

MCTTL == [k \in Kinds |-> IF k = "verify" THEN 2 ELSE 1]
MCCooldown == [k \in Kinds |-> 1]

=============================================================================
