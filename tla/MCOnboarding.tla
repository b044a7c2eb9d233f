------------------------------ MODULE MCOnboarding ------------------------------
(* A small instance of Onboarding for TLC. *)
EXTENDS Onboarding

CONSTANTS b1, b2

TwoSpeakers == <<b1, b2>>
================================================================================
