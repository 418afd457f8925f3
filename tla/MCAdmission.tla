----------------------------- MODULE MCAdmission -----------------------------
(* Small instances of Admission for TLC.                                     *)
EXTENDS Admission

\* A transient fault that asks for a delay beyond the cap, and a permanent one whose
\* reply may be lost.
MCFaults == {"RateLimited", "MalformedResponse"}
MCRetryAfters == {9}
MCDrifts == {"SelectorCollision"}
===============================================================================
