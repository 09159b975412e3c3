-------------------------- MODULE MCProviderRequests --------------------------
(* The instance checked: three messages to a request, two drafts, two labels *)
(* of the user and one of Gmail's; bodies that fit in pairs, and one that    *)
(* fits nowhere.                                                             *)
EXTENDS ProviderRequests

BodySizes == {1, 3, 6}
================================================================================
