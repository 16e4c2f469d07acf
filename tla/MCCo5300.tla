----------------------------- MODULE MCCo5300 ------------------------------
(* Co5300 with a panel of six by eight pixels, bands of six lines, and room *)
(* for fewer spans than four blocks in two separate columns have.           *)
EXTENDS Co5300

(* One block of each band.                                                  *)
MCLaterBlocks == {{0, 1} \X {4, 5}, {2, 3} \X {6, 7}}
=============================================================================
