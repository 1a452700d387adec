----------------------------------- MODULE Resets -----------------------------------
(***************************************************************************)
(* Password resets and sessions of one user (accounts): one-time codes,    *)
(* of which a new one discards the old, and Profile.token_version, which   *)
(* every login and logout counts up to make older tokens void.  No request *)
(* runs in a transaction: every statement commits by itself, and a worker  *)
(* may die between two.                                                     *)
(***************************************************************************)
EXTENDS Naturals

CONSTANTS Codes,      \* the codes that are ever issued (a bound)
          Workers,    \* web workers
          MaxVersion  \* bound on token_version

ResetsAssumption == MaxVersion \in Nat
ASSUME ResetsAssumption

VARIABLES code,     \* of each code: "none", "live", "used", "expired" or "deleted"
          sets,     \* how many passwords were set with each
          tokenVersion, \* Profile's
          tokens,   \* the versions that tokens were issued with
          job       \* where each worker is

resetVars == <<code, sets, tokenVersion, tokens, job>>

Idle == [at |-> "idle", code |-> "none", version |-> 0, login |-> FALSE]
Job == [at : {"idle", "creating", "found", "claimed", "set", "bumping", "counted"},
        code : Codes \cup {"none"}, version : Nat, login : BOOLEAN]

ResetsInit ==
  /\ code = [c \in Codes |-> "none"]
  /\ sets = [c \in Codes |-> 0]
  /\ tokenVersion = 0
  /\ tokens = {}
  /\ job = [w \in Workers |-> Idle]

Go(w, at) == job' = [job EXCEPT ![w].at = at]

\* PasswordResetOTP.issue: the DELETE of what is unused.
Discard(w) ==
  /\ job[w].at = "idle"
  /\ code' = [c \in Codes |-> IF code[c] \in {"live", "expired"} THEN "deleted" ELSE code[c]]
  /\ Go(w, "creating")
  /\ UNCHANGED <<sets, tokenVersion, tokens>>

\* ... and the INSERT of the new code.
Create(w) ==
  /\ job[w].at = "creating"
  /\ \E c \in Codes : code[c] = "none" /\ code' = [code EXCEPT ![c] = "live"]
  /\ job' = [job EXCEPT ![w] = Idle]
  /\ UNCHANGED <<sets, tokenVersion, tokens>>

\* The code's time is up.
Expire(c) ==
  /\ code[c] = "live"
  /\ code' = [code EXCEPT ![c] = "expired"]
  /\ UNCHANGED <<sets, tokenVersion, tokens, job>>

\* PasswordResetOTPConfirmView.post: the newest unused row with the code's hash,
\* if its time is not up.
Find(w, c) ==
  /\ job[w].at = "idle"
  /\ code[c] = "live"
  /\ job' = [job EXCEPT ![w] = [Idle EXCEPT !.at = "found", !.code = c]]
  /\ UNCHANGED <<code, sets, tokenVersion, tokens>>

\* Mutant of Claim: record.used = True; record.save().
ClaimBySave(w) ==
  /\ job[w].at = "found"
  /\ code' = [code EXCEPT ![job[w].code] = IF @ = "deleted" THEN @ ELSE "used"]
  /\ Go(w, "claimed")
  /\ UNCHANGED <<sets, tokenVersion, tokens>>

\* The UPDATE that takes the code, of a row that is there and unused; else 400. The
\* time is not looked at again.
Claim(w) ==
  /\ job[w].at = "found"
  /\ IF code[job[w].code] \in {"live", "expired"}
     THEN code' = [code EXCEPT ![job[w].code] = "used"] /\ Go(w, "claimed")
     ELSE UNCHANGED code /\ job' = [job EXCEPT ![w] = Idle]
  /\ UNCHANGED <<sets, tokenVersion, tokens>>

SetPassword(w) ==
  /\ job[w].at = "claimed"
  /\ sets' = [sets EXCEPT ![job[w].code] = @ + 1]
  /\ Go(w, "set")
  /\ UNCHANGED <<code, tokenVersion, tokens>>

\* "Invalidate any other outstanding codes".
UseUp(w) ==
  /\ job[w].at = "set"
  /\ code' = [c \in Codes |-> IF code[c] \in {"live", "expired"} THEN "used" ELSE code[c]]
  /\ Go(w, "bumping")
  /\ UNCHANGED <<sets, tokenVersion, tokens>>

\* TokenObtainSerializer.validate and GoogleLoginView, or LogoutAllView and a change
\* of the e-mail address, come to bump_token_version at once.
Arrive(w, login) ==
  /\ job[w].at = "idle"
  /\ job' = [job EXCEPT ![w] = [Idle EXCEPT !.at = "bumping", !.login = login]]
  /\ UNCHANGED <<code, sets, tokenVersion, tokens>>

\* The profile is loaded ...
LoadProfile(w) ==
  /\ job[w].at = "bumping" /\ tokenVersion < MaxVersion
  /\ job' = [job EXCEPT ![w].at = "counted", ![w].version = tokenVersion + 1]
  /\ UNCHANGED <<code, sets, tokenVersion, tokens>>

\* ... and saved, counted up. A login's tokens carry its count.
SaveProfile(w) ==
  /\ job[w].at = "counted"
  /\ tokenVersion' = job[w].version
  /\ tokens' = IF job[w].login THEN tokens \cup {job[w].version} ELSE tokens
  /\ job' = [job EXCEPT ![w] = Idle]
  /\ UNCHANGED <<code, sets>>

Die(w) ==
  /\ job' = [job EXCEPT ![w] = Idle]
  /\ UNCHANGED <<code, sets, tokenVersion, tokens>>

ResetsNext ==
  \/ \E c \in Codes : Expire(c)
  \/ \E w \in Workers :
       \/ Discard(w) \/ Create(w)
       \/ \E c \in Codes : Find(w, c)
       \/ Claim(w) \/ SetPassword(w) \/ UseUp(w)
       \/ \E login \in BOOLEAN : Arrive(w, login)
       \/ LoadProfile(w) \/ SaveProfile(w) \/ Die(w)

ResetsSpec == ResetsInit /\ [][ResetsNext]_resetVars

ResetsTypeOK ==
  /\ code \in [Codes -> {"none", "live", "used", "expired", "deleted"}]
  /\ sets \in [Codes -> Nat]
  /\ tokenVersion \in 0..MaxVersion
  /\ tokens \subseteq 1..MaxVersion
  /\ job \in [Workers -> Job]

\* A code sets one password at most, and none if a newer one had replaced it before
\* it was claimed: "consume the code so it cannot be reused, even under concurrent
\* requests hitting the same code" (PasswordResetOTPConfirmView).
CodeSetsOnePassword ==
  \A c \in Codes : /\ sets[c] <= 1
                   /\ sets[c] = 1 => code[c] = "used"
================================================================================
