------------------------------ MODULE MCOtpLogin ------------------------------
(***************************************************************************)
(* OtpLogin on a small instance.  Nothing in it tells two clients, phones, *)
(* challenges, codes or accounts apart.                                    *)
(***************************************************************************)
EXTENDS OtpLogin, TLC

Symmetry ==
  Permutations(Clients) \cup Permutations(Phones) \cup Permutations(Challenges)
    \cup Permutations(Codes) \cup Permutations(Accounts)
=============================================================================
