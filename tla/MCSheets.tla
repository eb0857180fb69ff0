------------------------------- MODULE MCSheets --------------------------------
(* Sheets of a case that has one document, in one file.                    *)
EXTENDS Sheets

MCFileOf == <<1>>
==============================================================================
