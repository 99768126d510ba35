--------------------------- MODULE MCPayoutAccount ---------------------------
(* The instance of PayoutAccount that TLC checks: two requests at once, one *)
(* failure, and enough numbers at UPay for every request to be given one.   *)
EXTENDS PayoutAccount, TLC

\* Requests, payer numbers, accounts and bank sections are alike.
Symmetry ==
  Permutations(Client) \union Permutations(Payer)
    \union Permutations(Account) \union Permutations(Details)
===============================================================================
