---------------------------- MODULE MCLicenseCalendar ----------------------------
(***************************************************************************)
(* A long month and the shortest one, each to its end, with days on which  *)
(* windows lie inside a month, at its end and beyond it.                   *)
(***************************************************************************)
EXTENDS LicenseCalendar

MCMonthLengths == <<31, 28, 31>>

==============================================================================
