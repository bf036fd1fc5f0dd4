-------------------------- MODULE MCMailboxExchange --------------------------
(* Small instances of MailboxExchange for TLC. *)
EXTENDS MailboxExchange_proofs, TLC

\* Sound for safety only: no property or action singles out a member.
Symmetry ==
    Permutations(Clients) \cup Permutations(Bridges) \cup Permutations(Requests)
==============================================================================
