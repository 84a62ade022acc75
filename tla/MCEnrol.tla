------------------------------ MODULE MCEnrol -------------------------------
(* How somebody comes to play, for TLC: the teams, and the addresses users  *)
(* register with and prove. The two share no row, so a behaviour is about   *)
(* one of them, and the variables of the other keep a value nothing is said *)
(* about. Requests and team ids are interchangeable; users of teams are     *)
(* not, the seat of a captain goes to the smallest.                         *)
EXTENDS TeamRoster

LOCAL INSTANCE TLC

CONSTANTS Registrants, Addresses, MaxCodes   \* of MailCodes

VARIABLES
  focus,   \* which of the two a behaviour is about
  email, pending, verified, codes, spent, holder, step, call, read, first

mailing == <<email, pending, verified, codes, spent, holder, step, call, read, first>>
all == <<focus, vars, mailing>>

M == INSTANCE MailCodes WITH Users <- Registrants, pc <- step

ASSUME EnrolConstants == M!CodeConstants

Symmetry == Permutations(Requests) \cup Permutations(Teams)

NoMailing == /\ email = None /\ pending = None /\ verified = None /\ codes = None /\ spent = None
             /\ holder = None /\ step = None /\ call = None /\ read = None /\ first = None

EnrolInit == Init /\ \/ focus = "teams" /\ NoMailing
                     \/ focus = "codes" /\ M!Init
Enrol  == focus = "teams" /\ Next /\ UNCHANGED <<focus, mailing>>
Verify == focus = "codes" /\ M!Next /\ UNCHANGED <<focus, vars>>
EnrolSpec == EnrolInit /\ [][Enrol \/ Verify]_all

(* Who registers unverified can verify: the code is committed with them.   *)
NobodyStranded == focus = "codes" => M!NobodyStranded

(* An address becomes live by a code mailed for that, not used before.     *)
FlipSpendsItsCode == [][focus = "codes" => M!FlipSpends]_all
=============================================================================
