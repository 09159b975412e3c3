---------------------------- MODULE MCLabelCatalogue ----------------------------
(* The instance checked: two labels of the user and one of Gmail's.          *)
EXTENDS LabelCatalogue
================================================================================
