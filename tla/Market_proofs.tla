------------------------------ MODULE Market_proofs ------------------------------
(***************************************************************************)
(* Theorems about the market, for any numbers of requests, copies, offers, *)
(* claimants, rides and askers and any times that agree with what Market   *)
(* assumes.  The parts share no state, so each has an invariant of its     *)
(* own, which a step of another part leaves as it is.                      *)
(***************************************************************************)
EXTENDS Market, Order, Sequences, FiniteSetTheorems, WellFoundedInduction, TLAPS

-------------------------------------------------------------------------------
(* Who is signed out (Access).                                               *)

Challenge == [id : Challenges, role : Roles, attempts : Nat, expires : Nat]
Given == [jti : Calls \cup {0}, role : Roles, iat : Nat, exp : Nat]
Bare == [step : {"new", "done", "used"}]
Verifying == [step : {"verify", "right"}, door : {"app", "console"}, seen : Challenge, at : Nat]
Carrying == [step : {"parsed", "passed"}, token : Given, job : Ac!Jobs, at : Nat]
Rejecting == [step : {"rejecting"}, at : Nat]
Call == Bare \cup Verifying \cup Carrying \cup Rejecting

AccessTypes ==
  /\ second \in Nat
  /\ challenges \subseteq Challenge
  /\ tokens \subseteq Given /\ ended \subseteq tokens
  /\ calls \in [Calls -> Call]
  /\ records \in [Calls \cup {0} -> Nat]
  /\ cutoff \in [Roles -> [at : Nat, until : Nat]]

\* No call waits longer than Delay; the token it carries is one that was given out.
Timely(call) ==
  /\ call.step \in {"verify", "right", "parsed", "passed", "rejecting"} =>
       call.at <= second /\ second <= call.at + Delay
  /\ call.step \in {"parsed", "passed"} => call.token \in tokens
  /\ call.step = "rejecting" => "driver" \in Roles

\* A number is given to one token, or to those given out before, which end together.
Numbered ==
  /\ \A t \in tokens : /\ t.iat <= second /\ t.exp = t.iat + AccessTTL
                       /\ t.jti = 0 => t.iat = 0
                       /\ t.jti # 0 => calls[t.jti].step = "done"
  /\ \A t, u \in tokens : t.jti = u.jti => t.exp = u.exp

\* What keeps a token out that is signed out: its own record, or the revocation of
\* its account, which a later one cannot make shorter or older than it.
KeptOut(t) ==
  \/ t.exp <= second
  \/ records[t.jti] >= t.exp
  \/ /\ cutoff[t.role].until >= t.exp
     /\ t.iat + Skew < cutoff[t.role].at
     /\ t.iat + Skew + Delay < second

AccessInv ==
  /\ AccessTypes
  /\ \A c \in Calls : Timely(calls[c])
  /\ Numbered
  /\ \A t \in ended : KeptOut(t)

-------------------------------------------------------------------------------
\* What a call carries where it is.
LEMMA CallTypes ==
  ASSUME AccessInv, NEW c \in Calls
  PROVE  /\ calls[c].step \in {"verify", "right"} => calls[c] \in Verifying
         /\ calls[c].step \in {"parsed", "passed"} => calls[c] \in Carrying /\ calls[c].token \in tokens
         /\ calls[c].step = "rejecting" => calls[c] \in Rejecting
         /\ Timely(calls[c])
<1>1. calls[c] \in Call /\ Timely(calls[c])
  BY DEF AccessInv, AccessTypes
<1> QED
  BY <1>1 DEF Call, Bare, Verifying, Carrying, Rejecting, Timely

\* One call goes on; nothing it needs is undone.
LEMMA CallStep ==
  ASSUME AccessInv, NEW c \in Calls, NEW n \in Call, Timely(n), calls[c].step # "done",
         calls' = [calls EXCEPT ![c] = n], UNCHANGED second, tokens \subseteq tokens'
  PROVE  /\ calls' \in [Calls -> Call]
         /\ \A b \in Calls : Timely(calls[b])'
         /\ \A t \in tokens : t.jti # 0 => calls'[t.jti].step = "done"
<1>1. calls' \in [Calls -> Call] /\ \A b \in Calls : calls'[b] = IF b = c THEN n ELSE calls[b]
  BY DEF AccessInv, AccessTypes
<1>2. \A b \in Calls : Timely(calls[b])'
  <2> SUFFICES ASSUME NEW b \in Calls PROVE Timely(calls[b])'
    OBVIOUS
  <2>1. Timely(calls'[b])
    BY <1>1 DEF AccessInv
  <2> QED
    BY <2>1 DEF Timely
<1>3. \A t \in tokens : t.jti # 0 => calls'[t.jti].step = "done"
  <2> SUFFICES ASSUME NEW t \in tokens, t.jti # 0 PROVE calls'[t.jti].step = "done"
    OBVIOUS
  <2>1. t.jti \in Calls /\ calls[t.jti].step = "done"
    BY DEF AccessInv, AccessTypes, Numbered, Given
  <2> QED
    BY <1>1, <2>1
<1> QED
  BY <1>1, <1>2, <1>3

\* A step that only lets one call go on, and may touch challenges and accounts.
LEMMA PlainStep ==
  ASSUME AccessInv, NEW c \in Calls, NEW n \in Call, Timely(n), calls[c].step # "done",
         calls' = [calls EXCEPT ![c] = n],
         UNCHANGED <<second, tokens, records, cutoff, ended>>,
         challenges' \subseteq Challenge
  PROVE  AccessInv'
<1>1. /\ calls' \in [Calls -> Call]
      /\ \A b \in Calls : Timely(calls[b])'
      /\ \A t \in tokens : t.jti # 0 => calls'[t.jti].step = "done"
  BY CallStep
<1>2. AccessTypes'
  BY <1>1 DEF AccessInv, AccessTypes
<1>3. Numbered'
  BY <1>1 DEF AccessInv, Numbered
<1>4. \A t \in ended' : KeptOut(t)'
  BY DEF AccessInv, KeptOut
<1> QED
  BY <1>1, <1>2, <1>3, <1>4 DEF AccessInv

\* A call that is over needs nothing.
LEMMA DoneIsCall == [step |-> "done"] \in Call /\ Timely([step |-> "done"])
BY DEF Call, Bare, Timely

\* A call that has been read is over: its number is taken.
LEMMA CodeSteps ==
  ASSUME AccessInv, NEW c \in Calls,
         \/ \E door \in {"app", "console"} : Ac!GetChallenge(c, door)
         \/ Ac!Refuse(c) \/ Ac!WrongCode(c) \/ Ac!RightCode(c)
  PROVE  AccessInv'
<1>0. AccessTypes /\ second \in Nat /\ challenges \subseteq Challenge /\ Delay \in Nat
  BY AccessAssumption DEF AccessInv, AccessTypes
<1>1. ASSUME NEW door \in {"app", "console"}, Ac!GetChallenge(c, door) PROVE AccessInv'
  <2> PICK h \in challenges : calls' = [calls EXCEPT ![c] = [step |-> "verify", door |-> door, seen |-> h, at |-> second]]
    BY <1>1 DEF Ac!GetChallenge, Ac!Step
  <2> PICK n : n = [step |-> "verify", door |-> door, seen |-> h, at |-> second]
    OBVIOUS
  <2>1. n \in Verifying /\ n.step = "verify" /\ n.at = second
    BY <1>0 DEF Verifying
  <2>2. n \in Call /\ Timely(n)
    BY <1>0, <2>1 DEF Call, Timely
  <2>3. calls[c].step # "done"
    BY <1>1 DEF Ac!GetChallenge, Ac!Next1
  <2> QED
    BY <1>0, <1>1, <2>2, <2>3, PlainStep DEF Ac!GetChallenge
<1>2. CASE Ac!Refuse(c) \/ Ac!WrongCode(c)
  <2>1. /\ calls[c].step = "verify" /\ calls' = [calls EXCEPT ![c] = [step |-> "done"]]
        /\ UNCHANGED <<second, tokens, records, cutoff, ended>>
    BY <1>2 DEF Ac!Refuse, Ac!WrongCode, Ac!At, Ac!Done, Ac!Step
  <2>2. calls[c] \in Verifying /\ calls[c].seen \in Challenge
    BY <2>1, CallTypes DEF Verifying
  <2>3. [calls[c].seen EXCEPT !.attempts = @ + 1] \in Challenge
    BY <2>2 DEF Challenge
  <2>4. challenges' \subseteq Challenge
    BY <1>0, <1>2, <2>3 DEF Ac!Refuse, Ac!WrongCode, Ac!OtherChallenges
  <2> QED
    BY <2>1, <2>4, DoneIsCall, PlainStep
<1>3. CASE Ac!RightCode(c)
  <2>1. /\ calls[c].step = "verify" /\ calls' = [calls EXCEPT ![c] = [calls[c] EXCEPT !.step = "right"]]
        /\ UNCHANGED <<second, tokens, records, cutoff, ended>>
    BY <1>3 DEF Ac!RightCode, Ac!At
  <2> PICK n : n = [calls[c] EXCEPT !.step = "right"]
    OBVIOUS
  <2>2. calls[c] \in Verifying /\ Timely(calls[c])
    BY <2>1, CallTypes
  <2>3. n \in Verifying /\ n.step = "right" /\ n.at = calls[c].at
    BY <2>2 DEF Verifying
  <2>4. n \in Call /\ Timely(n)
    BY <2>1, <2>2, <2>3 DEF Call, Timely
  <2>5. challenges' \subseteq Challenge
    BY <1>0, <1>3 DEF Ac!RightCode, Ac!OtherChallenges
  <2> QED
    BY <2>1, <2>4, <2>5, PlainStep
<1> QED
  BY <1>1, <1>2, <1>3

\* A token gets the number of its call, which has none yet (Issuer.IssueWithID).
LEMMA IssueStep == ASSUME AccessInv, NEW c \in Calls, Ac!Issue(c) PROVE AccessInv'
<1>1. /\ calls[c].step = "right" /\ calls' = [calls EXCEPT ![c] = [step |-> "done"]]
      /\ UNCHANGED <<second, challenges, records, cutoff, ended>>
      /\ tokens' = tokens \/ tokens' = tokens \cup {Ac!Token(c)}
      /\ challenges \subseteq Challenge
  BY DEF Ac!Issue, Ac!At, Ac!Done, Ac!Step, AccessInv, AccessTypes
<1>2. CASE tokens' = tokens
  BY <1>1, <1>2, DoneIsCall, PlainStep
<1>3. CASE tokens' = tokens \cup {Ac!Token(c)}
  <2> PICK n : n = Ac!Token(c)
    OBVIOUS
  <2>1. /\ n \in Given /\ n.jti = c /\ c # 0 /\ n.iat = calls[c].at /\ n.exp = n.iat + AccessTTL
        /\ n.iat <= second
    <3>1. calls[c] \in Verifying /\ Timely(calls[c])
      BY <1>1, CallTypes
    <3>2. calls[c].at \in Nat /\ calls[c].seen.role \in Roles /\ calls[c].at + AccessTTL \in Nat
          /\ calls[c].at <= second
      BY <1>1, <3>1, AccessAssumption DEF Verifying, Challenge, Timely
    <3> QED
      BY <3>2, AccessAssumption DEF Ac!Token, Given
  <2>2. /\ calls' \in [Calls -> Call]
        /\ \A b \in Calls : Timely(calls[b])'
        /\ \A t \in tokens : t.jti # 0 => calls'[t.jti].step = "done"
        /\ calls'[c].step = "done"
    <3>1. /\ calls' \in [Calls -> Call]
          /\ \A b \in Calls : Timely(calls[b])'
          /\ \A t \in tokens : t.jti # 0 => calls'[t.jti].step = "done"
      BY <1>1, <1>3, DoneIsCall, CallStep
    <3> QED
      BY <1>1, <3>1 DEF AccessInv, AccessTypes
  <2>3. AccessTypes'
    BY <1>1, <1>3, <2>1, <2>2 DEF AccessInv, AccessTypes
  <2>4. \A t \in tokens : t.jti # n.jti
    <3> SUFFICES ASSUME NEW t \in tokens, t.jti = c PROVE FALSE
      BY <2>1
    <3>1. calls[c].step = "done"
      BY <2>1 DEF AccessInv, Numbered
    <3> QED
      BY <1>1, <3>1
  <2>5. Numbered'
    BY <1>1, <1>3, <2>1, <2>2, <2>4 DEF AccessInv, Numbered
  <2>6. \A t \in ended' : KeptOut(t)'
    BY <1>1 DEF AccessInv, KeptOut
  <2> QED
    BY <2>2, <2>3, <2>5, <2>6 DEF AccessInv
<1> QED
  BY <1>1, <1>2, <1>3

\* A token that is not revoked goes on with the time of now.
LEMMA PassStep ==
  ASSUME AccessInv, NEW c \in Calls, calls[c].step = "parsed", Ac!Pass(c),
         UNCHANGED <<second, challenges, tokens, records, cutoff, ended>>
  PROVE  AccessInv'
<1>0. second \in Nat /\ challenges \subseteq Challenge /\ Delay \in Nat
      /\ calls[c] \in Carrying /\ calls[c].token \in tokens /\ calls \in [Calls -> Call]
  BY CallTypes, AccessAssumption DEF AccessInv, AccessTypes
<1>1. CASE calls' = [calls EXCEPT ![c] = [step |-> "used"]]
  <2>1. [step |-> "used"] \in Call /\ Timely([step |-> "used"])
    BY DEF Call, Bare, Timely
  <2> QED
    BY <1>0, <1>1, <2>1, PlainStep
<1>2. CASE calls' = [calls EXCEPT ![c].step = "passed", ![c].at = second]
  <2> PICK m : m = [calls[c] EXCEPT !.step = "passed"]
    OBVIOUS
  <2> PICK n : n = [m EXCEPT !.at = second]
    OBVIOUS
  <2>1. m \in Carrying /\ m.step = "passed" /\ m.token = calls[c].token
    BY <1>0 DEF Carrying
  <2>2. n \in Carrying /\ n.step = "passed" /\ n.token = calls[c].token /\ n.at = second
    BY <1>0, <2>1 DEF Carrying
  <2>3. n \in Call /\ Timely(n)
    BY <1>0, <2>2 DEF Call, Timely
  <2>4. calls' = [calls EXCEPT ![c] = n]
    <3>1. [calls EXCEPT ![c].step = "passed"] = [calls EXCEPT ![c] = m]
      OBVIOUS
    <3>2. [calls EXCEPT ![c] = m][c] = m
      BY <1>0
    <3>3. calls' = [[calls EXCEPT ![c] = m] EXCEPT ![c].at = second]
      BY <1>2, <3>1
    <3>4. calls' = [[calls EXCEPT ![c] = m] EXCEPT ![c] = n]
      BY <3>2, <3>3
    <3> QED
      BY <1>0, <3>4
  <2> QED
    BY <1>0, <2>3, <2>4, PlainStep
<1> QED
  BY <1>1, <1>2 DEF Ac!Pass, Ac!Step

\* A token is read and checked; a rejection begins.
LEMMA TokenSteps ==
  ASSUME AccessInv, NEW c \in Calls,
         \/ \E t \in tokens, job \in Ac!Jobs : Ac!Parse(c, t, job)
         \/ Ac!Require(c)
         \/ Ac!BeginReject(c)
  PROVE  AccessInv'
<1>0. second \in Nat /\ challenges \subseteq Challenge /\ Delay \in Nat /\ tokens \subseteq Given
  BY AccessAssumption DEF AccessInv, AccessTypes
<1>1. ASSUME NEW t \in tokens, NEW job \in Ac!Jobs, Ac!Parse(c, t, job) PROVE AccessInv'
  <2> PICK n : n = IF second < t.exp THEN [step |-> "parsed", token |-> t, job |-> job, at |-> second]
                   ELSE [step |-> "done"]
    OBVIOUS
  <2>1. n \in Call /\ Timely(n)
    <3>1. CASE second < t.exp
      <4>1. n \in Carrying /\ n.step = "parsed" /\ n.token = t /\ n.at = second
        BY <1>0, <3>1 DEF Carrying
      <4> QED
        BY <1>0, <4>1 DEF Call, Timely
    <3>2. CASE ~(second < t.exp)
      BY <3>2, DoneIsCall
    <3> QED
      BY <3>1, <3>2
  <2>2. /\ calls[c].step # "done" /\ calls' = [calls EXCEPT ![c] = n]
        /\ UNCHANGED <<second, tokens, records, cutoff, ended, challenges>>
    BY <1>1 DEF Ac!Parse, Ac!Next1, Ac!Step
  <2> QED
    BY <1>0, <2>1, <2>2, PlainStep
<1>2. CASE Ac!Require(c)
  <2>1. /\ calls[c].step = "parsed"
        /\ UNCHANGED <<second, tokens, records, cutoff, ended, challenges>>
        /\ Ac!Pass(c) \/ calls' = [calls EXCEPT ![c] = [step |-> "done"]]
    BY <1>2 DEF Ac!Require, Ac!At, Ac!Done, Ac!Step
  <2> QED
    BY <1>0, <2>1, DoneIsCall, PlainStep, PassStep
<1>3. CASE Ac!BeginReject(c)
  <2> PICK n : n = [step |-> "rejecting", at |-> second]
    OBVIOUS
  <2>1. n \in Rejecting /\ n.step = "rejecting" /\ n.at = second
    BY <1>0 DEF Rejecting
  <2>2. n \in Call /\ Timely(n)
    BY <1>0, <1>3, <2>1 DEF Ac!BeginReject, Call, Timely
  <2>3. /\ calls[c].step # "done" /\ calls' = [calls EXCEPT ![c] = n]
        /\ UNCHANGED <<second, tokens, records, cutoff, ended, challenges>>
    BY <1>3 DEF Ac!BeginReject, Ac!Next1, Ac!Step
  <2> QED
    BY <1>0, <2>2, <2>3, PlainStep
<1> QED
  BY <1>1, <1>2, <1>3

\* The record of a token lives no shorter than the token; for a token that has the same
\* number it does not end sooner either (RedisRevoker.RevokeToken).
LEMMA RevokeTokenStep ==
  ASSUME AccessInv, NEW c \in Calls, Ac!RevokeToken(c)
  PROVE  AccessInv'
<1> PICK t : t = calls[c].token
  OBVIOUS
<1>1. /\ calls[c].step = "passed" /\ calls' = [calls EXCEPT ![c] = [step |-> "done"]]
      /\ UNCHANGED <<second, challenges, tokens, cutoff>>
      /\ challenges \subseteq Challenge
  BY DEF Ac!RevokeToken, Ac!Passed, Ac!At, Ac!Done, Ac!Step, AccessInv, AccessTypes
<1>2. CASE UNCHANGED <<records, ended>>
  BY <1>1, <1>2, DoneIsCall, PlainStep
<1>3. CASE /\ records' = [records EXCEPT ![t.jti] =
                 IF t.exp > calls[c].at THEN second + (t.exp - calls[c].at) ELSE @]
           /\ ended' = ended \cup {t}
  <2>1. /\ t \in tokens /\ t \in Given /\ t.jti \in Calls \cup {0} /\ t.exp \in Nat
        /\ calls[c].at \in Nat /\ calls[c].at <= second /\ second \in Nat
        /\ records \in [Calls \cup {0} -> Nat]
    BY <1>1, CallTypes DEF Carrying, Given, Timely, AccessInv, AccessTypes
  <2> PICK until : until = IF t.exp > calls[c].at THEN second + (t.exp - calls[c].at) ELSE records[t.jti]
    OBVIOUS
  <2>2. until \in Nat /\ (until >= t.exp \/ (t.exp <= second /\ until = records[t.jti]))
    <3>1. CASE t.exp > calls[c].at
      <4>1. until = second + (t.exp - calls[c].at)
        BY <3>1
      <4> QED
        BY <2>1, <3>1, <4>1
    <3>2. CASE ~(t.exp > calls[c].at)
      <4>1. until = records[t.jti]
        BY <3>2
      <4> QED
        BY <2>1, <3>2, <4>1
    <3> QED
      BY <3>1, <3>2
  <2>3. /\ records' \in [Calls \cup {0} -> Nat]
        /\ \A j \in Calls \cup {0} : records'[j] = IF j = t.jti THEN until ELSE records[j]
    BY <1>3, <2>1, <2>2
  <2>4. /\ calls' \in [Calls -> Call]
        /\ \A b \in Calls : Timely(calls[b])'
        /\ \A u \in tokens : u.jti # 0 => calls'[u.jti].step = "done"
    BY <1>1, DoneIsCall, CallStep
  <2>5. AccessTypes'
    BY <1>1, <1>3, <2>1, <2>3, <2>4 DEF AccessInv, AccessTypes
  <2>6. Numbered'
    BY <1>1, <2>4 DEF AccessInv, Numbered
  <2>7. \A u \in ended' : KeptOut(u)'
    <3> SUFFICES ASSUME NEW u \in ended \cup {t}
                 PROVE  \/ u.exp <= second
                        \/ records'[u.jti] >= u.exp
                        \/ /\ cutoff[u.role].until >= u.exp
                           /\ u.iat + Skew < cutoff[u.role].at
                           /\ u.iat + Skew + Delay < second
      BY <1>1, <1>3 DEF KeptOut
    <3>1. u \in tokens /\ u.jti \in Calls \cup {0} /\ u.exp \in Nat
      BY <2>1 DEF AccessInv, AccessTypes, Given
    <3>2. CASE u.jti = t.jti
      <4>1. u.exp = t.exp
        BY <2>1, <3>1, <3>2 DEF AccessInv, Numbered
      <4> QED
        BY <2>1, <2>2, <2>3, <3>1, <3>2, <4>1
    <3>3. CASE u.jti # t.jti
      BY <2>3, <3>1, <3>3 DEF AccessInv, KeptOut
    <3> QED
      BY <3>2, <3>3
  <2> QED
    BY <2>4, <2>5, <2>6, <2>7 DEF AccessInv
<1> QED
  BY <1>1, <1>2, <1>3 DEF Ac!RevokeToken

\* A revocation of an account is written with a time that may be Delay old; whoever an
\* earlier one kept out is older than that.
LEMMA CutOffStep ==
  ASSUME AccessInv, NEW c \in Calls, NEW role \in Roles, Ac!CutOff(c, role),
         calls[c].step \in {"passed", "rejecting"}
  PROVE  AccessInv'
<1> PICK now : now = calls[c].at
  OBVIOUS
<1>1. /\ calls' = [calls EXCEPT ![c] = [step |-> "done"]] /\ calls[c].step # "done"
      /\ UNCHANGED <<second, challenges, tokens, records>>
      /\ challenges \subseteq Challenge
  BY DEF Ac!CutOff, Ac!Done, Ac!Step, AccessInv, AccessTypes
<1>2. CASE UNCHANGED <<cutoff, ended>>
  BY <1>1, <1>2, DoneIsCall, PlainStep
<1>3. CASE /\ cutoff' = [cutoff EXCEPT ![role] = [at |-> now, until |-> second + RecordTTL]]
           /\ ended' = ended \cup {t \in tokens : t.role = role /\ t.iat + Skew + Delay < now}
  <2>1. /\ now \in Nat /\ now <= second /\ second <= now + Delay /\ second \in Nat
        /\ cutoff \in [Roles -> [at : Nat, until : Nat]]
    BY CallTypes DEF Carrying, Rejecting, Timely, AccessInv, AccessTypes
  <2>2. /\ cutoff' \in [Roles -> [at : Nat, until : Nat]]
        /\ \A r \in Roles \ {role} : cutoff'[r] = cutoff[r]
        /\ cutoff'[role].at = now /\ cutoff'[role].until = second + RecordTTL
    <3>1. second + RecordTTL \in Nat
      BY <2>1, AccessAssumption
    <3> QED
      BY <1>3, <2>1, <3>1
  <2>3. /\ calls' \in [Calls -> Call]
        /\ \A b \in Calls : Timely(calls[b])'
        /\ \A u \in tokens : u.jti # 0 => calls'[u.jti].step = "done"
    BY <1>1, DoneIsCall, CallStep
  <2>4. AccessTypes'
    BY <1>1, <1>3, <2>2, <2>3 DEF AccessInv, AccessTypes
  <2>5. Numbered'
    BY <1>1, <2>3 DEF AccessInv, Numbered
  <2>6. \A u \in ended' : KeptOut(u)'
    <3> SUFFICES ASSUME NEW u \in tokens,
                        u \in ended \/ (u.role = role /\ u.iat + Skew + Delay < now)
                 PROVE  \/ u.exp <= second
                        \/ records[u.jti] >= u.exp
                        \/ /\ cutoff'[u.role].until >= u.exp
                           /\ u.iat + Skew < cutoff'[u.role].at
                           /\ u.iat + Skew + Delay < second
      BY <1>1, <1>3 DEF KeptOut, AccessInv, AccessTypes
    <3>1. /\ u.role \in Roles /\ u.exp \in Nat /\ u.iat \in Nat
          /\ u.iat <= second /\ u.exp = u.iat + AccessTTL
      BY DEF AccessInv, AccessTypes, Given, Numbered
    <3>2. second + RecordTTL >= u.exp
      BY <2>1, <3>1, AccessAssumption
    <3>3. CASE u.role # role
      BY <2>2, <3>1, <3>3 DEF AccessInv, KeptOut
    <3>4. CASE u.role = role /\ u.iat + Skew + Delay < now
      BY <2>1, <2>2, <3>1, <3>2, <3>4, AccessAssumption
    <3>5. CASE u.role = role /\ u \in ended
      <4>1. KeptOut(u)
        BY <3>5 DEF AccessInv
      <4>2. u.iat + Skew + Delay < second => u.iat + Skew < now
        BY <2>1, <3>1, AccessAssumption
      <4> QED
        BY <2>2, <3>2, <3>5, <4>1, <4>2 DEF KeptOut
    <3> QED
      BY <3>3, <3>4, <3>5
  <2> QED
    BY <2>3, <2>4, <2>5, <2>6 DEF AccessInv
<1> QED
  BY <1>2, <1>3 DEF Ac!CutOff

\* All devices of an account are signed out, by its holder or by the console.
LEMMA RevokeSteps ==
  ASSUME AccessInv, NEW c \in Calls, Ac!RevokeAccount(c) \/ Ac!RevokeRejected(c)
  PROVE  AccessInv'
<1>1. CASE Ac!RevokeAccount(c)
  <2>1. calls[c].step = "passed" /\ Ac!CutOff(c, calls[c].token.role)
    BY <1>1 DEF Ac!RevokeAccount, Ac!Passed, Ac!At
  <2>2. calls[c].token.role \in Roles
    BY <2>1, CallTypes DEF Carrying, Given
  <2> QED
    BY <2>1, <2>2, CutOffStep
<1>2. CASE Ac!RevokeRejected(c)
  <2>1. calls[c].step = "rejecting" /\ Ac!CutOff(c, "driver")
    BY <1>2 DEF Ac!RevokeRejected, Ac!At
  <2>2. "driver" \in Roles
    BY <2>1, CallTypes DEF Timely
  <2> QED
    BY <2>1, <2>2, CutOffStep
<1> QED
  BY <1>1, <1>2

\* Codes are asked for and forgotten.
LEMMA TimeSteps ==
  ASSUME AccessInv,
         \/ \E id \in Challenges, role \in Roles : Ac!RequestOTP(id, role)
         \/ Ac!SweepExpiredChallenges
  PROVE  AccessInv'
<1>1. UNCHANGED <<second, tokens, calls, records, cutoff, ended>>
  BY DEF Ac!RequestOTP, Ac!SweepExpiredChallenges
<1>2. challenges' \subseteq Challenge
  <2>1. second \in Nat /\ challenges \subseteq Challenge /\ second + CodeTTL \in Nat
    BY AccessAssumption DEF AccessInv, AccessTypes
  <2>2. ASSUME NEW id \in Challenges, NEW role \in Roles, Ac!RequestOTP(id, role)
        PROVE  challenges' \subseteq Challenge
    BY <2>1, <2>2 DEF Ac!RequestOTP, Challenge
  <2>3. CASE Ac!SweepExpiredChallenges
    BY <2>1, <2>3 DEF Ac!SweepExpiredChallenges
  <2> QED
    BY <2>2, <2>3
<1> QED
  BY <1>1, <1>2 DEF AccessInv, AccessTypes, Timely, Numbered, KeptOut

\* Time goes by; a token that was too old for a revocation stays too old.
LEMMA TickStep == ASSUME AccessInv, Ac!Tick PROVE AccessInv'
<1>1. /\ second \in Nat /\ second' = second + 1 /\ second + 1 \in Nat
      /\ UNCHANGED <<challenges, tokens, calls, records, cutoff, ended>>
  BY DEF Ac!Tick, AccessInv, AccessTypes
<1>2. AccessTypes'
  BY <1>1 DEF AccessInv, AccessTypes
<1>3. \A c \in Calls : Timely(calls[c])'
  <2> SUFFICES ASSUME NEW c \in Calls PROVE Timely(calls[c])'
    OBVIOUS
  <2>1. /\ calls[c].step \in {"verify", "right", "parsed", "passed", "rejecting"} =>
             calls[c].at \in Nat /\ calls[c].at <= second /\ second < calls[c].at + Delay
        /\ Timely(calls[c])
    BY CallTypes DEF Ac!Tick, Verifying, Carrying, Rejecting, Timely
  <2> QED
    BY <1>1, <2>1, AccessAssumption DEF Timely
<1>4. Numbered'
  <2>1. \A t \in tokens : t.iat \in Nat
    BY DEF AccessInv, AccessTypes, Given
  <2> QED
    BY <1>1, <2>1 DEF AccessInv, Numbered
<1>5. \A t \in ended' : KeptOut(t)'
  <2> SUFFICES ASSUME NEW t \in ended PROVE KeptOut(t)'
    BY <1>1
  <2>1. KeptOut(t) /\ t.iat \in Nat /\ t.exp \in Nat
    BY DEF AccessInv, AccessTypes, Given
  <2> QED
    BY <1>1, <2>1, AccessAssumption DEF KeptOut
<1> QED
  BY <1>2, <1>3, <1>4, <1>5 DEF AccessInv

\* All of Access.
LEMMA AccessStep == ASSUME AccessInv, [Ac!AccessNext]_access PROVE AccessInv'
<1>1. CASE UNCHANGED access
  BY <1>1 DEF access, AccessInv, AccessTypes, Timely, Numbered, KeptOut
<1> QED
  BY <1>1, CodeSteps, IssueStep, TokenSteps, RevokeTokenStep, RevokeSteps, TimeSteps, TickStep
     DEF Ac!AccessNext

\* Nobody has been signed out yet.
LEMMA AccessStart == Ac!AccessInit => AccessInv
<1> SUFFICES ASSUME Ac!AccessInit PROVE AccessInv
  OBVIOUS
<1>1. tokens \subseteq Given /\ \A t \in tokens : t.jti = 0 /\ t.iat = 0 /\ t.exp = AccessTTL
  <2>1. \A r \in Roles : /\ Ac!First(r) \in Given /\ Ac!First(r).jti = 0 /\ Ac!First(r).iat = 0
                        /\ Ac!First(r).exp = AccessTTL
    BY AccessAssumption DEF Ac!First, Given
  <2> QED
    BY <2>1 DEF Ac!AccessInit
<1>2. AccessTypes
  BY <1>1 DEF Ac!AccessInit, AccessTypes, Call, Bare, Ac!NoCutoff
<1>3. \A c \in Calls : Timely(calls[c])
  BY DEF Ac!AccessInit, Timely
<1>4. Numbered
  BY <1>1, AccessAssumption DEF Ac!AccessInit, Numbered
<1> QED
  BY <1>2, <1>3, <1>4 DEF Ac!AccessInit, AccessInv

\* And so it stays.
LEMMA AccessInvariant == MarketSpec => []AccessInv
<1>1. MarketInit => AccessInv
  BY AccessStart DEF MarketInit
<1>2. AccessInv /\ [MarketNext]_marketVars => AccessInv'
  <2> SUFFICES ASSUME AccessInv, [MarketNext]_marketVars PROVE AccessInv'
    OBVIOUS
  <2>1. UNCHANGED access \/ Ac!AccessNext
    BY DEF MarketNext, marketVars
  <2> QED
    BY <2>1, AccessStep
<1> QED
  BY <1>1, <1>2, PTL DEF MarketSpec

\* Only the check of Redis lets a call with a token go on, and there it finds what
\* keeps the token out.
LEMMA OnlyRequirePasses ==
  ASSUME AccessInv, Ac!AccessNext, NEW c \in Calls, calls[c].step = "parsed",
         calls'[c].step \in {"passed", "used"}
  PROVE  Ac!Require(c) /\ ~Ac!IsRevoked(calls[c].token)
<1>0. calls \in [Calls -> Call]
  BY DEF AccessInv, AccessTypes
<1>1. calls'[c] # calls[c] /\ calls'[c].step # "done"
  OBVIOUS
<1>2. ASSUME NEW b \in Calls,
             \/ \E door \in {"app", "console"} : Ac!GetChallenge(b, door)
             \/ Ac!Refuse(b) \/ Ac!WrongCode(b) \/ Ac!RightCode(b) \/ Ac!Issue(b)
             \/ \E t \in tokens, job \in Ac!Jobs : Ac!Parse(b, t, job)
             \/ Ac!RevokeToken(b) \/ Ac!RevokeAccount(b)
             \/ Ac!BeginReject(b) \/ Ac!RevokeRejected(b)
      PROVE  FALSE
  <2>1. calls[b].step # "parsed" /\ \E n : calls' = [calls EXCEPT ![b] = n]
    BY <1>2, SMTT(30) DEF Ac!GetChallenge, Ac!Refuse, Ac!WrongCode, Ac!RightCode, Ac!Issue, Ac!Parse,
       Ac!RevokeToken, Ac!RevokeAccount, Ac!BeginReject, Ac!RevokeRejected, Ac!Passed, Ac!CutOff,
       Ac!Next1, Ac!At, Ac!Step, Ac!Done
  <2>2. b # c
    BY <2>1
  <2> QED
    BY <1>0, <1>1, <2>1, <2>2
<1>3. ASSUME NEW b \in Calls, Ac!Require(b) PROVE b = c
  <2>1. \E n : calls' = [calls EXCEPT ![b] = n]
    BY <1>3 DEF Ac!Require, Ac!Pass, Ac!Done, Ac!Step
  <2> QED
    BY <1>0, <1>1, <2>1
<1>4. Ac!Require(c)
  <2>1. CASE UNCHANGED calls
    BY <1>1, <2>1
  <2>2. \/ UNCHANGED calls
        \/ \E b \in Calls :
             \/ \E door \in {"app", "console"} : Ac!GetChallenge(b, door)
             \/ Ac!Refuse(b) \/ Ac!WrongCode(b) \/ Ac!RightCode(b) \/ Ac!Issue(b)
             \/ \E t \in tokens, job \in Ac!Jobs : Ac!Parse(b, t, job)
             \/ Ac!Require(b) \/ Ac!RevokeToken(b) \/ Ac!RevokeAccount(b)
             \/ Ac!BeginReject(b) \/ Ac!RevokeRejected(b)
    BY DEF Ac!AccessNext, Ac!RequestOTP, Ac!SweepExpiredChallenges, Ac!Tick
  <2> QED
    BY <1>2, <1>3, <2>1, <2>2
<1>5. ~Ac!IsRevoked(calls[c].token)
  <2>1. calls' = [calls EXCEPT ![c] = [step |-> "done"]] => calls'[c].step = "done"
    BY <1>0
  <2> QED
    BY <1>1, <1>4, <2>1 DEF Ac!Require, Ac!Done, Ac!Step
<1> QED
  BY <1>4, <1>5

\* SignedOutStaysOut: no call passes with a token its holder was told is signed out while
\* it lives; Redis may fail, revocations may be written late and over newer ones, and
\* records run out (authn: Require, RevokeToken, RevokeAccount).
THEOREM SignedOutIsRefused == MarketSpec => SignedOutStaysOut
<1>1. AccessInv /\ [MarketNext]_marketVars =>
        [\A c \in Calls :
           ( /\ calls[c].step = "parsed" /\ calls'[c].step \in {"passed", "used"}
             /\ second < calls[c].token.exp )
           => calls[c].token \notin ended]_access
  <2> SUFFICES ASSUME AccessInv, [MarketNext]_marketVars, ~UNCHANGED access, NEW c \in Calls,
                      calls[c].step = "parsed", calls'[c].step \in {"passed", "used"},
                      second < calls[c].token.exp, calls[c].token \in ended
               PROVE  FALSE
    BY DEF access
  <2>1. Ac!AccessNext
    BY DEF MarketNext, marketVars
  <2>2. ~Ac!IsRevoked(calls[c].token) /\ KeptOut(calls[c].token)
    BY <2>1, OnlyRequirePasses DEF AccessInv
  <2>3. calls[c].token \in Given /\ second \in Nat /\ records \in [Calls \cup {0} -> Nat]
        /\ cutoff \in [Roles -> [at : Nat, until : Nat]]
    BY DEF AccessInv, AccessTypes
  <2>4. /\ calls[c].token.exp \in Nat /\ records[calls[c].token.jti] \in Nat
        /\ cutoff[calls[c].token.role].until \in Nat
    BY <2>3 DEF Given
  <2> QED
    BY <2>2, <2>3, <2>4 DEF Ac!IsRevoked, KeptOut
<1>2. AccessInv /\ [MarketNext]_marketVars =>
        [\A c \in Calls :
           ( /\ calls[c].step = "parsed" /\ calls'[c].step \in {"passed", "used"}
             /\ second < calls[c].token.exp )
           => calls[c].token \notin ended]_(Ac!accessVars)
  BY <1>1 DEF access, Ac!accessVars
<1> QED
  BY <1>2, AccessInvariant, PTL DEF MarketSpec, SignedOutStaysOut, Ac!SignedOutStaysOut

-------------------------------------------------------------------------------
(* How often somebody may ask (Limits).                                      *)

Windows == [last : Nat, hourStart : Nat, dayStart : Nat, hour : Nat, day : Nat]
Bucket == [tokens : 0 .. Capacity, last : Nat, ts : Nat]

Since(s) == {c \in codes : c >= s}
Before(s, n) == {c \in codes : c > s - n /\ c < s}
Within(n, t) == {c \in codes : c > t - n /\ c <= t}

\* Since a window began no more codes than it counts, and in one such time before it
\* no more than "most".
Held(s, count, n, limit, most) ==
  /\ s <= tick /\ count <= limit
  /\ Cardinality(Since(s)) <= count
  /\ Cardinality(Before(s, n)) <= most

\* What there can be within an hour before the first hour of a number: it may have
\* been swept.
Most == IF limiter = "codes memory" THEN PerHour + PerHour ELSE PerHour

LimitTypes ==
  /\ tick \in Nat \ {0}
  /\ window \in Windows /\ window.last <= tick
  /\ codes \subseteq 1 .. tick
  /\ bucket \in Bucket /\ bucket.last <= tick /\ bucket.last <= bucket.ts
  /\ level \in Nat /\ limitFaults \in Nat

Paced ==
  /\ \A c \in codes : c <= window.last \/ tick - c >= Cooldown
  /\ \A c, d \in codes : c < d => d - c >= Cooldown

DayHolds(w) == Held(w.dayStart, w.day, Day, PerDay, PerDay)
HourHolds(w) ==
  Held(w.hourStart, w.hour, Hour, PerHour, IF w.hourStart = w.dayStart THEN Most ELSE PerHour)

Counting ==
  /\ window # Li!Fresh => DayHolds(window) /\ HourHolds(window)
  /\ window = Li!Fresh => /\ Cardinality(Within(Day, tick)) <= PerDay
                          /\ Cardinality(Within(Hour, tick)) <= Most
  /\ \A t \in Nat : /\ Cardinality(Within(Day, t)) <= PerDay + PerDay
                    /\ Cardinality(Within(Hour, t)) <= PerHour + Most

\* What there would be in the bucket by now, if only time filled it.
Fill == Li!Refilled(bucket, tick - bucket.last)

\* What there would be in the bucket and what has gone beyond the flow is never more than
\* it takes, but for what was let through without asking.
Brimming ==
  /\ bucket.last = 0 => bucket.tokens = Capacity
  /\ level + Fill <= Capacity + limitFaults

LimitInv == LimitTypes /\ Paced /\ Counting /\ Brimming

\* No more codes were sent without asking than Redis has failed.
Owed == limitFaults \in Nat /\ IsFiniteSet(unasked) /\ Cardinality(unasked) <= limitFaults

-------------------------------------------------------------------------------
\* Limits counts codes with its own copy of FiniteSets.
LEMMA SameCount == \A S : Li!Cardinality(S) = Cardinality(S)
BY DEF Cardinality, Li!Cardinality

\* No more codes have been sent than moments have passed: they can be counted.
LEMMA CodesAreFinite ==
  ASSUME LimitTypes, NEW S, S \subseteq codes
  PROVE  IsFiniteSet(S) /\ Cardinality(S) \in Nat
<1>1. IsFiniteSet(1 .. tick)
  BY FS_Interval DEF LimitTypes
<1>2. S \subseteq 1 .. tick
  BY DEF LimitTypes
<1> QED
  BY <1>1, <1>2, FS_Subset, FS_CardinalityType

\* A part of some codes is no more of them.
LEMMA Fewer ==
  ASSUME LimitTypes, NEW S, NEW T, S \subseteq T, T \subseteq codes
  PROVE  Cardinality(S) <= Cardinality(T)
BY CodesAreFinite, FS_Subset

\* Codes of two kinds are no more than those of the one and those of the other.
LEMMA Together ==
  ASSUME LimitTypes, NEW S, NEW T, NEW U, S \subseteq codes, T \subseteq codes, U \subseteq S \cup T
  PROVE  Cardinality(U) <= Cardinality(S) + Cardinality(T)
<1>1. /\ IsFiniteSet(S) /\ IsFiniteSet(T) /\ IsFiniteSet(S \cap T)
      /\ Cardinality(S) \in Nat /\ Cardinality(T) \in Nat /\ Cardinality(S \cap T) \in Nat
  BY CodesAreFinite
<1>2. IsFiniteSet(S \cup T) /\ Cardinality(S \cup T) = Cardinality(S) + Cardinality(T) - Cardinality(S \cap T)
  BY <1>1, FS_Union
<1>3. Cardinality(U) <= Cardinality(S \cup T) /\ Cardinality(U) \in Nat
  BY <1>1, <1>2, FS_Subset, FS_CardinalityType
<1> QED
  BY <1>1, <1>2, <1>3

\* A number that was swept has had at most two hours' codes in one.
LEMMA MostType == Most \in Nat /\ PerHour <= Most
<1>1. PerHour \in Nat /\ PerHour + PerHour \in Nat /\ PerHour <= PerHour + PerHour
  BY LimitsAssumption
<1>2. Most = PerHour + PerHour \/ Most = PerHour
  BY DEF Most
<1> QED
  BY <1>1, <1>2

-------------------------------------------------------------------------------
\* When a window has held as long as it is, whatever lies within its length counts in
\* it.
LEMMA OverIsCounted ==
  ASSUME LimitTypes, NEW s \in Nat, NEW n \in Nat, tick - s >= n
  PROVE  /\ Within(n, tick) \subseteq Since(s)
         /\ Before(tick, n) \subseteq Since(s)
         /\ Within(n, tick) \subseteq codes /\ Before(tick, n) \subseteq codes /\ Since(s) \subseteq codes
<1>1. tick \in Nat /\ \A c \in codes : c \in Nat /\ c <= tick
  BY DEF LimitTypes
<1>2. ASSUME NEW c \in codes, c > tick - n PROVE c >= s
  BY <1>1, <1>2
<1>3. Within(n, tick) \subseteq Since(s)
  BY <1>2 DEF Within, Since
<1>4. Before(tick, n) \subseteq Since(s)
  BY <1>2 DEF Before, Since
<1> QED
  BY <1>3, <1>4 DEF Within, Before, Since

\* The windows turned still hold, when no code was sent this very moment.
LEMMA TurnedHolds ==
  ASSUME LimitInv, ~Li!Cooling(window), NEW w, w = Li!Turned(window)
  PROVE  /\ w \in Windows /\ w.last = window.last /\ w # Li!Fresh
         /\ \A c \in codes : c < tick /\ tick - c >= Cooldown
         /\ DayHolds(w) /\ HourHolds(w)
<1>1. /\ LimitTypes /\ tick \in Nat \ {0} /\ codes \subseteq 1 .. tick
      /\ window \in Windows /\ window.last \in Nat /\ window.dayStart \in Nat /\ window.hourStart \in Nat
      /\ window.day \in Nat /\ window.hour \in Nat
      /\ Cooldown \in Nat \ {0} /\ Hour \in Nat /\ Day \in Nat /\ Hour <= Day
      /\ PerHour \in Nat /\ PerDay \in Nat /\ Most \in Nat /\ PerHour <= Most
  BY LimitsAssumption, MostType DEF LimitInv, LimitTypes, Windows
<1>2. \A c \in codes : c \in Nat /\ c < tick /\ tick - c >= Cooldown
  <2> SUFFICES ASSUME NEW c \in codes PROVE c \in Nat /\ c < tick /\ tick - c >= Cooldown
    OBVIOUS
  <2>1. c \in Nat /\ c >= 1 /\ c <= tick
    BY <1>1
  <2>2. c <= window.last \/ tick - c >= Cooldown
    BY DEF LimitInv, Paced
  <2>3. window.last = 0 \/ tick - window.last >= Cooldown
    BY <1>1 DEF Li!Cooling
  <2> QED
    BY <1>1, <2>1, <2>2, <2>3
<1> DEFINE hourOver == window = Li!Fresh \/ tick - window.hourStart >= Hour
           dayOver == window = Li!Fresh \/ tick - window.dayStart >= Day
<1>3. /\ w.last = window.last
      /\ w.hourStart = IF hourOver THEN tick ELSE window.hourStart
      /\ w.hour = IF hourOver THEN 0 ELSE window.hour
      /\ w.dayStart = IF dayOver THEN tick ELSE window.dayStart
      /\ w.day = IF dayOver THEN 0 ELSE window.day
      /\ w \in Windows
  BY <1>1 DEF Li!Turned, Windows
<1>4. w # Li!Fresh
  <2>1. CASE hourOver \/ dayOver
    <3>1. w.hourStart = tick \/ w.dayStart = tick
      BY <1>3, <2>1
    <3>2. Li!Fresh.hourStart = 0 /\ Li!Fresh.dayStart = 0
      BY DEF Li!Fresh
    <3> QED
      BY <1>1, <3>1, <3>2
  <2>2. CASE ~hourOver /\ ~dayOver
    <3>1. w.last = window.last /\ w.hourStart = window.hourStart /\ w.hour = window.hour
          /\ w.dayStart = window.dayStart /\ w.day = window.day
      BY <1>3, <2>2
    <3>2. w = window
      BY <1>1, <1>3, <3>1 DEF Windows
    <3> QED
      BY <2>2, <3>2
  <2> QED
    BY <2>1, <2>2
<1>5. Since(tick) = {} /\ Cardinality(Since(tick)) = 0
  <2>1. ASSUME NEW c \in codes, c >= tick PROVE FALSE
    BY <1>1, <1>2, <2>1
  <2>2. Since(tick) = {}
    BY <2>1 DEF Since
  <2> QED
    BY <2>2, FS_EmptySet
<1>6. \A n \in Nat : /\ Before(tick, n) \subseteq Within(n, tick)
                     /\ Within(n, tick) \subseteq codes /\ Before(tick, n) \subseteq codes
                     /\ Cardinality(Before(tick, n)) <= Cardinality(Within(n, tick))
                     /\ Cardinality(Before(tick, n)) \in Nat /\ Cardinality(Within(n, tick)) \in Nat
  <2> SUFFICES ASSUME NEW n \in Nat
               PROVE  /\ Before(tick, n) \subseteq Within(n, tick)
                      /\ Within(n, tick) \subseteq codes /\ Before(tick, n) \subseteq codes
                      /\ Cardinality(Before(tick, n)) <= Cardinality(Within(n, tick))
                      /\ Cardinality(Before(tick, n)) \in Nat /\ Cardinality(Within(n, tick)) \in Nat
    OBVIOUS
  <2>1. Before(tick, n) \subseteq Within(n, tick) /\ Within(n, tick) \subseteq codes
    <3>1. \A c \in codes : c < tick => c <= tick
      BY <1>1, <1>2
    <3> QED
      BY <3>1 DEF Before, Within
  <2> QED
    BY <1>1, <2>1, Fewer, CodesAreFinite
<1>7. \A s \in Nat : Cardinality(Since(s)) \in Nat
  BY <1>1, CodesAreFinite DEF Since
<1>8. ASSUME NEW s \in Nat, NEW n \in Nat, tick - s >= n
      PROVE  Cardinality(Before(tick, n)) <= Cardinality(Since(s))
  BY <1>1, <1>8, OverIsCounted, Fewer
<1>9. DayHolds(w)
  <2>1. CASE window = Li!Fresh
    <3>1. Cardinality(Within(Day, tick)) <= PerDay
      BY <2>1 DEF LimitInv, Counting
    <3>2. w.dayStart = tick /\ w.day = 0
      BY <1>3, <2>1
    <3>3. Cardinality(Before(tick, Day)) <= PerDay
      BY <1>1, <1>6, <3>1
    <3> QED
      BY <1>1, <1>5, <3>2, <3>3 DEF DayHolds, Held
  <2>2. CASE window # Li!Fresh /\ tick - window.dayStart >= Day
    <3>1. Cardinality(Since(window.dayStart)) <= window.day /\ window.day <= PerDay
      BY <2>2 DEF LimitInv, Counting, DayHolds, Held
    <3>2. Cardinality(Before(tick, Day)) <= PerDay
      <4>1. Cardinality(Before(tick, Day)) <= Cardinality(Since(window.dayStart))
        BY <1>1, <1>8, <2>2
      <4>2. Cardinality(Before(tick, Day)) \in Nat /\ Cardinality(Since(window.dayStart)) \in Nat
        BY <1>1, <1>6, <1>7
      <4> QED
        BY <1>1, <3>1, <4>1, <4>2
    <3> QED
      BY <1>1, <1>3, <1>5, <2>2, <3>2 DEF DayHolds, Held
  <2>3. CASE window # Li!Fresh /\ ~(tick - window.dayStart >= Day)
    BY <1>3, <2>3 DEF LimitInv, Counting, DayHolds
  <2> QED
    BY <2>1, <2>2, <2>3
<1>10. HourHolds(w)
  <2>1. CASE window = Li!Fresh
    <3>1. Cardinality(Within(Hour, tick)) <= Most
      BY <2>1 DEF LimitInv, Counting
    <3>2. w.hourStart = tick /\ w.dayStart = tick /\ w.hour = 0
      BY <1>3, <2>1
    <3>3. Cardinality(Before(tick, Hour)) <= Most
      BY <1>1, <1>6, <3>1
    <3> QED
      BY <1>1, <1>5, <3>2, <3>3 DEF HourHolds, Held
  <2>2. CASE window # Li!Fresh /\ tick - window.hourStart >= Hour
    <3>1. Cardinality(Since(window.hourStart)) <= window.hour /\ window.hour <= PerHour
      BY <2>2 DEF LimitInv, Counting, HourHolds, Held
    <3>2. Cardinality(Before(tick, Hour)) <= PerHour
      <4>1. Cardinality(Before(tick, Hour)) <= Cardinality(Since(window.hourStart))
        BY <1>1, <1>8, <2>2
      <4>2. Cardinality(Before(tick, Hour)) \in Nat /\ Cardinality(Since(window.hourStart)) \in Nat
        BY <1>1, <1>6, <1>7
      <4> QED
        BY <1>1, <3>1, <4>1, <4>2
    <3>3. w.hourStart = tick /\ w.hour = 0
      BY <1>3, <2>2
    <3>4. Cardinality(Before(tick, Hour)) <= Most
      BY <1>1, <1>6, <3>2
    <3> QED
      BY <1>1, <1>5, <3>2, <3>3, <3>4 DEF HourHolds, Held
  <2>3. CASE window # Li!Fresh /\ ~(tick - window.hourStart >= Hour)
    <3>1. w.hourStart = window.hourStart /\ w.hour = window.hour
      BY <1>3, <2>3
    <3>2. HourHolds(window) /\ window.dayStart <= tick
      BY <2>3 DEF LimitInv, Counting, DayHolds, Held
    <3>3. CASE w.dayStart = window.dayStart
      BY <3>1, <3>2, <3>3 DEF HourHolds
    <3>4. CASE w.dayStart # window.dayStart
      <4>1. tick - window.dayStart >= Day /\ w.dayStart = tick
        BY <1>3, <2>3, <3>4
      <4>2. window.hourStart # window.dayStart
        BY <1>1, <2>3, <4>1
      <4>3. Held(window.hourStart, window.hour, Hour, PerHour, PerHour)
        BY <3>2, <4>2 DEF HourHolds
      <4>4. Cardinality(Before(window.hourStart, Hour)) \in Nat
        BY <1>1, CodesAreFinite DEF Before
      <4> QED
        BY <1>1, <3>1, <4>3, <4>4 DEF HourHolds, Held
    <3> QED
      BY <3>3, <3>4
  <2> QED
    BY <2>1, <2>2, <2>3
<1> QED
  BY <1>2, <1>3, <1>4, <1>9, <1>10

-------------------------------------------------------------------------------
\* The windows are turned and no code is sent.
LEMMA QuietAnswer ==
  ASSUME LimitInv, ~Li!Cooling(window), window' = Li!Turned(window),
         UNCHANGED <<limiter, tick, codes, bucket, level, limitFaults>>
  PROVE  LimitInv'
<1> PICK w : w = Li!Turned(window)
  OBVIOUS
<1>1. /\ w \in Windows /\ w.last = window.last /\ w # Li!Fresh
      /\ DayHolds(w) /\ HourHolds(w) /\ window' = w
  BY TurnedHolds
<1>2. LimitTypes'
  BY <1>1 DEF LimitInv, LimitTypes
<1>3. Paced'
  BY <1>1 DEF LimitInv, Paced
<1>4. DayHolds(w)' /\ HourHolds(w)'
  BY <1>1 DEF DayHolds, HourHolds, Held, Since, Before, Most
<1>5. DayHolds(window)' /\ HourHolds(window)'
  BY <1>1, <1>4 DEF DayHolds, HourHolds, Held, Since, Before, Most
<1>6. Counting'
  BY <1>1, <1>5 DEF LimitInv, Counting, Within, Most
<1>7. Brimming'
  BY DEF LimitInv, Brimming, Fill, Li!Refilled
<1> QED
  BY <1>2, <1>3, <1>6, <1>7 DEF LimitInv

\* With one code more a window that had room still holds, and so does any other time
\* of its length.
LEMMA OneMoreHolds ==
  ASSUME LimitTypes, \A c \in codes : c < tick, UNCHANGED tick, codes' = codes \cup {tick},
         NEW s \in Nat, NEW count \in Nat, NEW n \in Nat, NEW limit \in Nat, NEW most \in Nat,
         Held(s, count, n, limit, most), count < limit
  PROVE  /\ Held(s, count + 1, n, limit, most)'
         /\ \A t \in Nat : Cardinality(Within(n, t))' <= Cardinality(Within(n, t))
                            \/ Cardinality(Within(n, t))' <= limit + most
<1>1. /\ tick \in Nat \ {0} /\ codes \subseteq 1 .. tick /\ s <= tick
      /\ Cardinality(Since(s)) <= count /\ Cardinality(Before(s, n)) <= most
      /\ \A c \in codes : c \in Nat /\ c < tick
  BY DEF LimitTypes, Held
<1>2. /\ IsFiniteSet(Since(s)) /\ Cardinality(Since(s)) \in Nat
      /\ IsFiniteSet(Before(s, n)) /\ Cardinality(Before(s, n)) \in Nat
  BY CodesAreFinite DEF Since, Before
<1>3. Since(s)' = Since(s) \cup {tick} /\ tick \notin Since(s)
  BY <1>1 DEF Since
<1>4. Cardinality(Since(s)') = Cardinality(Since(s)) + 1 /\ IsFiniteSet(Since(s)')
  BY <1>2, <1>3, FS_AddElement
<1>5. Before(s, n)' = Before(s, n)
  BY <1>1 DEF Before
<1>6. Held(s, count + 1, n, limit, most)'
  <2>1. /\ s <= tick' /\ count + 1 <= limit /\ Cardinality(Since(s)') <= count + 1
        /\ Cardinality(Before(s, n)') <= most
    BY <1>1, <1>2, <1>4, <1>5
  <2> QED
    BY <2>1 DEF Held
<1>7. ASSUME NEW t \in Nat
      PROVE  \/ Cardinality(Within(n, t)') <= Cardinality(Within(n, t))
             \/ Cardinality(Within(n, t)') <= limit + most
  <2>0. Cardinality(Within(n, t)) \in Nat
    BY CodesAreFinite DEF Within
  <2>1. CASE tick <= t /\ tick > t - n
    <3>1. Within(n, t)' \subseteq Since(s)' \cup Before(s, n)
      <4> SUFFICES ASSUME NEW c \in codes', c > t - n, c <= t, ~(c >= s)
                   PROVE  c \in codes /\ c > s - n /\ c < s
        BY DEF Within, Since, Before
      <4>1. c \in Nat
        BY <1>1
      <4> QED
        BY <1>1, <2>1, <4>1
    <3>2. Cardinality(Within(n, t)') <= Cardinality(Since(s)') + Cardinality(Before(s, n))
      <4>1. /\ IsFiniteSet(Since(s)' \cup Before(s, n)) /\ IsFiniteSet(Since(s)' \cap Before(s, n))
            /\ Cardinality(Since(s)' \cup Before(s, n)) =
                 Cardinality(Since(s)') + Cardinality(Before(s, n)) - Cardinality(Since(s)' \cap Before(s, n))
        BY <1>2, <1>4, FS_Union, FS_Subset
      <4>2. /\ Cardinality(Since(s)' \cap Before(s, n)) \in Nat
            /\ Cardinality(Since(s)' \cup Before(s, n)) \in Nat /\ Cardinality(Since(s)') \in Nat
        BY <1>4, <4>1, FS_CardinalityType
      <4>3. Cardinality(Within(n, t)') <= Cardinality(Since(s)' \cup Before(s, n))
            /\ Cardinality(Within(n, t)') \in Nat
        BY <3>1, <4>1, FS_Subset, FS_CardinalityType
      <4> QED
        BY <1>2, <4>1, <4>2, <4>3
    <3>3. Cardinality(Within(n, t)') \in Nat
      BY <1>2, <1>4, <3>1, FS_Union, FS_Subset, FS_CardinalityType
    <3> QED
      BY <1>1, <1>2, <1>4, <3>2, <3>3
  <2>2. CASE ~(tick <= t /\ tick > t - n)
    <3>1. Within(n, t)' = Within(n, t)
      BY <2>2 DEF Within
    <3> QED
      BY <2>0, <3>1
  <2> QED
    BY <2>1, <2>2
<1> QED
  BY <1>6, <1>7

\* The windows are turned, have room, and a code is sent (OTPLimiter.Allow).
LEMMA Answered ==
  ASSUME LimitInv, ~Li!Cooling(window), Li!Room(Li!Turned(window)),
         window' = Li!Counted(Li!Turned(window)), codes' = codes \cup {tick},
         UNCHANGED <<limiter, tick, bucket, level, limitFaults>>
  PROVE  LimitInv'
<1> PICK w, m : w = Li!Turned(window) /\ m = IF w.hourStart = w.dayStart THEN Most ELSE PerHour
  OBVIOUS
<1>1. /\ w \in Windows /\ w.last = window.last /\ w # Li!Fresh
      /\ \A c \in codes : c < tick /\ tick - c >= Cooldown
      /\ DayHolds(w) /\ HourHolds(w) /\ w.hour < PerHour /\ w.day < PerDay
  BY TurnedHolds DEF Li!Room
<1>2. /\ w.hourStart \in Nat /\ w.dayStart \in Nat /\ w.hour \in Nat /\ w.day \in Nat
      /\ Hour \in Nat /\ Day \in Nat /\ PerHour \in Nat /\ PerDay \in Nat /\ Most \in Nat
      /\ m \in Nat /\ m <= Most /\ Cooldown \in Nat \ {0}
      /\ LimitTypes /\ tick \in Nat \ {0} /\ codes \subseteq 1 .. tick
  BY <1>1, MostType, LimitsAssumption DEF Windows, LimitInv, LimitTypes
<1>3. /\ window' \in Windows /\ window'.last = tick
      /\ window'.hourStart = w.hourStart /\ window'.hour = w.hour + 1
      /\ window'.dayStart = w.dayStart /\ window'.day = w.day + 1
  <2> PICK h \in Nat, d \in Nat : h = w.hour + 1 /\ d = w.day + 1
    BY <1>2
  <2> PICK u : u = [w EXCEPT !.last = tick]
    OBVIOUS
  <2>1. /\ u \in Windows /\ u.last = tick /\ u.hour = w.hour /\ u.day = w.day
        /\ u.hourStart = w.hourStart /\ u.dayStart = w.dayStart
    BY <1>1, <1>2 DEF Windows
  <2> PICK v : v = [u EXCEPT !.hour = h]
    OBVIOUS
  <2>2. /\ v \in Windows /\ v.last = tick /\ v.hour = h /\ v.day = w.day
        /\ v.hourStart = w.hourStart /\ v.dayStart = w.dayStart
    BY <1>2, <2>1 DEF Windows
  <2>3. window' = [v EXCEPT !.day = d]
    <3>1. window' = [[[w EXCEPT !.last = tick] EXCEPT !.hour = u.hour + 1] EXCEPT !.day = v.day + 1]
      BY <2>1, <2>2 DEF Li!Counted
    <3> QED
      BY <2>1, <2>2, <3>1
  <2> QED
    BY <1>2, <2>2, <2>3 DEF Windows
<1>4. /\ Held(w.dayStart, w.day + 1, Day, PerDay, PerDay)'
      /\ \A t \in Nat : Cardinality(Within(Day, t))' <= Cardinality(Within(Day, t))
                         \/ Cardinality(Within(Day, t))' <= PerDay + PerDay
  BY <1>1, <1>2, OneMoreHolds DEF DayHolds
<1>5. /\ Held(w.hourStart, w.hour + 1, Hour, PerHour, m)'
      /\ \A t \in Nat : Cardinality(Within(Hour, t))' <= Cardinality(Within(Hour, t))
                         \/ Cardinality(Within(Hour, t))' <= PerHour + m
  <2>1. Held(w.hourStart, w.hour, Hour, PerHour, m)
    BY <1>1 DEF HourHolds
  <2> QED
    BY <1>1, <1>2, <2>1, OneMoreHolds
<1>6. LimitTypes'
  <2>1. codes' \subseteq 1 .. tick
    BY <1>2
  <2> QED
    BY <1>2, <1>3, <2>1 DEF LimitTypes
<1>7. Paced'
  <2>1. \A c \in codes : c \in Nat
    BY <1>2
  <2>2. \A c \in codes' : c <= tick
    BY <1>2
  <2>3. \A c, d \in codes' : c < d => d - c >= Cooldown
    <3> SUFFICES ASSUME NEW c \in codes', NEW d \in codes', c < d PROVE d - c >= Cooldown
      OBVIOUS
    <3>1. c \in codes
      BY <1>1, <1>2, <2>1
    <3>2. CASE d \in codes
      BY <3>1, <3>2 DEF LimitInv, Paced
    <3>3. CASE d = tick
      BY <1>1, <3>1, <3>3
    <3> QED
      BY <3>2, <3>3
  <2> QED
    BY <1>3, <2>2, <2>3 DEF Paced
<1>8. Counting'
  <2>1. window' # Li!Fresh
    <3>1. Li!Fresh.last = 0
      BY DEF Li!Fresh
    <3> QED
      BY <1>2, <1>3, <3>1
  <2>2. DayHolds(window)'
    BY <1>3, <1>4 DEF DayHolds, Held, Since, Before
  <2>3. HourHolds(window)'
    <3>1. m = IF window'.hourStart = window'.dayStart THEN Most' ELSE PerHour
      BY <1>3 DEF Most
    <3> QED
      BY <1>3, <1>5, <3>1 DEF HourHolds, Held, Since, Before
  <2>4. ASSUME NEW t \in Nat
        PROVE  /\ Cardinality(Within(Day, t)') <= PerDay + PerDay
               /\ Cardinality(Within(Hour, t)') <= PerHour + Most
    <3>1. /\ Cardinality(Within(Day, t)) <= PerDay + PerDay
          /\ Cardinality(Within(Hour, t)) <= PerHour + Most
      BY DEF LimitInv, Counting
    <3>2. /\ Cardinality(Within(Day, t)) \in Nat /\ Cardinality(Within(Hour, t)) \in Nat
          /\ Cardinality(Within(Day, t)') \in Nat /\ Cardinality(Within(Hour, t)') \in Nat
      <4>1. ASSUME NEW n PROVE Within(n, t)' \subseteq codes' /\ IsFiniteSet(codes')
        BY <1>2, <1>6, CodesAreFinite, FS_AddElement DEF Within
      <4> QED
        BY <1>2, <4>1, CodesAreFinite, FS_Subset, FS_CardinalityType DEF Within
    <3> QED
      BY <1>2, <1>4, <1>5, <3>1, <3>2
  <2> QED
    BY <2>1, <2>2, <2>3, <2>4 DEF Counting, Most
<1>9. Brimming'
  BY DEF LimitInv, Brimming, Fill, Li!Refilled
<1> QED
  BY <1>6, <1>7, <1>8, <1>9 DEF LimitInv

\* A number that is forgotten has had, within an hour, the codes of two windows at most:
\* its day is over, so the hour it is in has been turned since the day began, or is over.
LEMMA SweepNumbersStep == ASSUME LimitInv, Li!SweepNumbers PROVE LimitInv'
<1>1. /\ LimitTypes /\ window \in Windows /\ tick \in Nat \ {0} /\ window # Li!Fresh
      /\ tick - window.dayStart >= Day /\ tick - window.last >= Cooldown
      /\ window' = Li!Fresh /\ UNCHANGED <<limiter, tick, codes, bucket, level, limitFaults>>
      /\ Most = PerHour + PerHour /\ Cooldown \in Nat
      /\ PerHour \in Nat /\ PerDay \in Nat /\ Hour \in Nat /\ Day \in Nat /\ Hour <= Day
      /\ \A c \in codes : c \in Nat /\ c <= tick
  <2>1. LimitTypes /\ window \in Windows /\ tick \in Nat \ {0} /\ codes \subseteq 1 .. tick
    BY DEF LimitInv, LimitTypes
  <2>2. /\ window # Li!Fresh /\ limiter = "codes memory"
        /\ tick - window.dayStart >= Day /\ tick - window.last >= Cooldown
        /\ window' = Li!Fresh /\ UNCHANGED <<limiter, tick, codes, bucket, level, limitFaults>>
    BY DEF Li!SweepNumbers
  <2>3. Most = PerHour + PerHour
    BY <2>2 DEF Most
  <2>4. \A c \in codes : c \in Nat /\ c <= tick
    BY <2>1
  <2>5. /\ Cooldown \in Nat /\ PerHour \in Nat /\ PerDay \in Nat
        /\ Hour \in Nat /\ Day \in Nat /\ Hour <= Day
    BY LimitsAssumption
  <2> QED
    BY <2>1, <2>2, <2>3, <2>4, <2>5
<1>2. /\ window.dayStart \in Nat /\ window.hourStart \in Nat /\ window.last \in Nat
      /\ window.day \in Nat /\ window.hour \in Nat
  BY <1>1 DEF Windows
<1>3. Li!Fresh \in Windows /\ Li!Fresh.last = 0
  BY DEF Windows, Li!Fresh
<1>4. LimitTypes'
  BY <1>1, <1>3 DEF LimitTypes
<1>5. Paced'
  <2>1. \A c \in codes : tick - c >= Cooldown
    BY <1>1, <1>2 DEF LimitInv, Paced
  <2> QED
    BY <1>1, <2>1 DEF LimitInv, Paced
<1>6. /\ Cardinality(Since(window.dayStart)) <= window.day /\ window.day <= PerDay
      /\ Cardinality(Since(window.hourStart)) <= window.hour /\ window.hour <= PerHour
      /\ window.hourStart # window.dayStart => Cardinality(Before(window.hourStart, Hour)) <= PerHour
      /\ window.hourStart <= tick
  BY <1>1 DEF LimitInv, Counting, DayHolds, HourHolds, Held
<1>7. /\ Since(window.dayStart) \subseteq codes /\ Since(window.hourStart) \subseteq codes
      /\ Before(window.hourStart, Hour) \subseteq codes
      /\ Cardinality(Since(window.dayStart)) \in Nat /\ Cardinality(Since(window.hourStart)) \in Nat
      /\ Cardinality(Before(window.hourStart, Hour)) \in Nat
      /\ Cardinality(Within(Day, tick)) \in Nat /\ Cardinality(Within(Hour, tick)) \in Nat
  BY <1>1, CodesAreFinite DEF Since, Before, Within
<1>8. Cardinality(Within(Day, tick)) <= PerDay
  <2>1. Cardinality(Within(Day, tick)) <= Cardinality(Since(window.dayStart))
    BY <1>1, <1>2, OverIsCounted, Fewer
  <2> QED
    BY <1>1, <1>2, <1>6, <1>7, <2>1
<1>9. Cardinality(Within(Hour, tick)) <= Most
  <2>1. CASE window.hourStart = window.dayStart
    <3>1. tick - window.hourStart >= Hour
      BY <1>1, <1>2, <2>1
    <3>2. Cardinality(Within(Hour, tick)) <= Cardinality(Since(window.hourStart))
      BY <1>1, <1>2, <3>1, OverIsCounted, Fewer
    <3> QED
      BY <1>1, <1>2, <1>6, <1>7, <3>2
  <2>2. CASE window.hourStart # window.dayStart
    <3>1. Within(Hour, tick) \subseteq Since(window.hourStart) \cup Before(window.hourStart, Hour)
      <4> SUFFICES ASSUME NEW c \in codes, c > tick - Hour, ~(c >= window.hourStart)
                   PROVE  c > window.hourStart - Hour /\ c < window.hourStart
        BY DEF Within, Since, Before
      <4>1. c \in Nat
        BY <1>1
      <4> QED
        BY <1>1, <1>2, <1>6, <4>1
    <3>2. Cardinality(Within(Hour, tick)) <=
            Cardinality(Since(window.hourStart)) + Cardinality(Before(window.hourStart, Hour))
      BY <1>1, <1>7, <3>1, Together
    <3> QED
      BY <1>1, <1>2, <1>6, <1>7, <2>2, <3>2
  <2> QED
    BY <2>1, <2>2
<1>10. Counting'
  BY <1>1, <1>8, <1>9 DEF LimitInv, Counting, Within, Most
<1>11. Brimming'
  BY <1>1 DEF LimitInv, Brimming, Fill, Li!Refilled
<1> QED
  BY <1>4, <1>5, <1>10, <1>11 DEF LimitInv

-------------------------------------------------------------------------------
\* A bucket after some time, without the CHOOSE of Min.
LEMMA RefilledIs ==
  ASSUME NEW b \in Bucket, NEW past, NEW flow \in Nat, flow = past * Rate
  PROVE  /\ Li!Refilled(b, past) = IF b.tokens + flow <= Capacity THEN b.tokens + flow ELSE Capacity
         /\ Li!Refilled(b, past) \in 0 .. Capacity
<1>1. b.tokens \in Nat /\ Capacity \in Nat /\ b.tokens + flow \in Nat
  BY BucketAssumption DEF Bucket
<1> PICK f : f = b.tokens + flow
  OBVIOUS
<1>2. Li!Refilled(b, past) = CHOOSE x \in {Capacity, f} : \A y \in {Capacity, f} : x <= y
  BY DEF Li!Refilled, Li!Min
<1>3. Li!Refilled(b, past) \in {Capacity, f} /\ \A y \in {Capacity, f} : Li!Refilled(b, past) <= y
  <2>1. \E x \in {Capacity, f} : \A y \in {Capacity, f} : x <= y
    BY <1>1
  <2> QED
    BY <1>2, <2>1
<1> QED
  BY <1>1, <1>3

\* What has flowed in, and when that fills any bucket: after IdleTTL, and after the life
\* of the key in Redis.
LEMMA FlowType ==
  ASSUME NEW past \in Nat
  PROVE  /\ past * Rate \in Nat /\ (past + 1) * Rate = past * Rate + Rate
         /\ past >= IdleTTL => past * Rate >= Capacity
         /\ past >= Capacity \div Rate + 1 => past * Rate >= Capacity
<1>1. Rate \in Nat \ {0} /\ Capacity \in Nat /\ IdleTTL \in Nat /\ IdleTTL * Rate >= Capacity
  BY BucketAssumption
<1>2. past * Rate \in Nat /\ (past + 1) * Rate = past * Rate + Rate
  BY <1>1
<1>3. ASSUME NEW least \in Nat, past >= least PROVE past * Rate >= least * Rate
  BY <1>1, <1>3, SMTT(30)
<1>4. past >= IdleTTL => past * Rate >= Capacity
  <2>1. IdleTTL * Rate \in Nat
    BY <1>1
  <2> QED
    BY <1>1, <1>2, <1>3, <2>1
<1>5. past >= Capacity \div Rate + 1 => past * Rate >= Capacity
  <2> PICK q : q = Capacity \div Rate
    OBVIOUS
  <2>1. q \in Nat /\ Capacity <= q * Rate + Rate
    BY <1>1, SMTT(30)
  <2>2. (q + 1) * Rate = q * Rate + Rate /\ q * Rate \in Nat /\ q + 1 \in Nat
    BY <1>1, <2>1
  <2> QED
    BY <1>1, <1>2, <1>3, <2>1, <2>2
<1> QED
  BY <1>2, <1>4, <1>5

\* A request is served from no more than what goes with the level.
LEMMA ServedStep ==
  ASSUME LimitInv, NEW t \in 0 .. Capacity, NEW clock \in Nat, tick <= clock,
         NEW ahead \in Nat, NEW low \in Nat, low = Li!Less(level, ahead * Rate),
         low + t <= Capacity + limitFaults, Li!Serve(t, clock, ahead),
         UNCHANGED <<limiter, tick, window, codes, limitFaults>>
  PROVE  LimitInv'
<1>1. /\ tick \in Nat \ {0} /\ Capacity \in Nat /\ Rate \in Nat \ {0} /\ limitFaults \in Nat
  BY BucketAssumption DEF LimitInv, LimitTypes
<1> PICK left, up : /\ left = IF t >= 1 THEN t - 1 ELSE t
                    /\ up = IF t >= 1 THEN low + 1 ELSE low
  OBVIOUS
<1>2. left \in 0 .. Capacity /\ up \in Nat /\ up + left <= Capacity + limitFaults
  BY <1>1
<1>3. Li!Less(t, 1) = left
  BY DEF Li!Less
<1>4. bucket' = [tokens |-> left, last |-> tick, ts |-> clock] /\ level' = up
  BY <1>1, <1>3 DEF Li!Serve
<1>5. bucket' \in Bucket /\ bucket'.last = tick /\ bucket'.tokens = left /\ bucket'.ts = clock
  BY <1>1, <1>2, <1>4 DEF Bucket
<1>6. Fill' = left
  <2> PICK b, past : b = bucket' /\ past = tick - bucket'.last
    OBVIOUS
  <2>1. b \in Bucket /\ b.tokens = left /\ past * Rate = 0
    BY <1>1, <1>5
  <2>2. Li!Refilled(b, past) = left
    BY <1>1, <1>2, <2>1, RefilledIs
  <2> QED
    BY <2>2 DEF Fill, Li!Refilled
<1>7. LimitTypes'
  BY <1>1, <1>2, <1>4, <1>5 DEF LimitInv, LimitTypes
<1>8. Brimming'
  BY <1>1, <1>2, <1>4, <1>5, <1>6 DEF Brimming
<1>9. Paced' /\ Counting'
  BY DEF LimitInv, Paced, Counting, DayHolds, HourHolds, Held, Since, Before, Within, Most
<1> QED
  BY <1>7, <1>8, <1>9 DEF LimitInv

\* A bucket that was forgotten, in memory or by Redis, would be full by now: to begin with
\* a full one gives nothing away.  A pod whose clock is ahead fills it for what it is ahead
\* of the last one, and that much the level falls (httpx: RateLimit, RedisRateLimit).
LEMMA RequestSteps ==
  ASSUME LimitInv, Li!RateInMemory \/ \E lead \in Leads : Li!RateInRedis(lead)
  PROVE  LimitInv'
<1> PICK past : past = tick - bucket.last
  OBVIOUS
<1>1. /\ bucket \in Bucket /\ bucket.last \in Nat /\ bucket.last <= tick /\ tick \in Nat
      /\ past \in Nat /\ past * Rate \in Nat /\ Capacity \in Nat /\ bucket.tokens \in 0 .. Capacity
      /\ IdleTTL \in Nat /\ Rate \in Nat \ {0} /\ bucket.ts \in Nat /\ bucket.last <= bucket.ts
      /\ level \in Nat /\ limitFaults \in Nat
  BY FlowType, BucketAssumption DEF LimitInv, LimitTypes, Bucket
<1>2. /\ Fill = IF bucket.tokens + past * Rate <= Capacity
                THEN bucket.tokens + past * Rate ELSE Capacity
      /\ Fill \in 0 .. Capacity /\ Fill = Li!Refilled(bucket, past)
      /\ level + Fill <= Capacity + limitFaults
  BY <1>1, RefilledIs DEF Fill, LimitInv, Brimming
<1>3. bucket.last = 0 \/ past * Rate >= Capacity => Fill = Capacity
  BY <1>1, <1>2 DEF LimitInv, Brimming
<1>4. Li!Less(level, 0 * Rate) = level
  BY <1>1 DEF Li!Less
<1>5. CASE Li!RateInMemory
  <2>1. bucket.last = 0 \/ Li!Forgotten(bucket) => Fill = Capacity
    <3>1. Li!Forgotten(bucket) => past * Rate >= Capacity
      BY <1>1, FlowType DEF Li!Forgotten
    <3> QED
      BY <1>3, <3>1
  <2>2. Li!Serve(Fill, tick, 0)
    BY <1>5, <2>1 DEF Li!RateInMemory, Fill
  <2>3. UNCHANGED <<limiter, tick, window, codes, limitFaults>>
    BY <1>5 DEF Li!RateInMemory
  <2> QED
    BY <1>1, <1>2, <1>4, <2>2, <2>3, ServedStep
<1>6. ASSUME NEW lead \in Leads, Li!RateInRedis(lead) PROVE LimitInv'
  <2> PICK clock : clock = tick + lead
    OBVIOUS
  <2>1. lead \in Nat /\ clock \in Nat /\ tick <= clock
    BY <1>1, ClaimsAssumption
  <2>2. CASE ~Li!Alive(bucket)
    <3>1. Fill = Capacity
      <4> PICK k : k = Capacity \div Rate + 1
        OBVIOUS
      <4>1. k \in Nat /\ Li!KeyLife = k
        BY <1>1 DEF Li!KeyLife
      <4>2. bucket.last = 0 \/ past >= k
        BY <1>1, <2>2, <4>1 DEF Li!Alive
      <4> QED
        BY <1>1, <1>3, <4>1, <4>2, FlowType
    <3>2. Li!Serve(Fill, clock, 0)
      BY <1>6, <2>2, <3>1 DEF Li!RateInRedis
    <3> QED
      BY <1>1, <1>2, <1>4, <1>6, <2>1, <3>2, ServedStep DEF Li!RateInRedis
  <2>3. CASE Li!Alive(bucket)
    <3> PICK ahead, on : ahead = Li!Less(lead, bucket.ts - bucket.last) /\ on = Li!Less(clock, bucket.ts)
      OBVIOUS
    <3>1. ahead \in Nat /\ on \in Nat /\ on <= past + ahead
      BY <1>1, <2>1 DEF Li!Less
    <3> PICK more \in Nat : more = ahead * Rate
      BY <3>1, FlowType
    <3> PICK flow \in Nat : flow = on * Rate
      BY <3>1, FlowType
    <3>2. flow <= past * Rate + more
      <4>1. (past + ahead) * Rate = past * Rate + ahead * Rate
        BY <1>1, <3>1, SMTT(30)
      <4>2. on * Rate <= (past + ahead) * Rate
        <5> PICK all \in Nat : all = past + ahead
          BY <1>1, <3>1
        <5>1. on <= all
          BY <3>1
        <5>2. on * Rate <= all * Rate
          BY <1>1, <3>1, <5>1, SMTT(30)
        <5> QED
          BY <5>2
      <4> QED
        BY <4>1, <4>2
    <3> PICK t : t = Li!Refilled(bucket, on)
      OBVIOUS
    <3>3. /\ t \in 0 .. Capacity
          /\ t = IF bucket.tokens + flow <= Capacity THEN bucket.tokens + flow ELSE Capacity
      BY <1>1, <3>1, RefilledIs
    <3> PICK low : low = Li!Less(level, more)
      OBVIOUS
    <3>4. low \in Nat /\ low + t <= Capacity + limitFaults
      <4> PICK w \in Nat : w = past * Rate
        BY <1>1
      <4> QED
        BY <1>1, <1>2, <3>2, <3>3 DEF Li!Less
    <3>5. Li!Serve(t, clock, ahead)
      BY <1>6, <2>3 DEF Li!RateInRedis
    <3> QED
      BY <1>1, <1>6, <2>1, <3>1, <3>3, <3>4, <3>5, ServedStep DEF Li!RateInRedis
  <2> QED
    BY <2>2, <2>3
<1> QED
  BY <1>5, <1>6

\* A request that is let through because Redis failed.
LEMMA PassAnywayStep == ASSUME LimitInv, Li!PassAnyway PROVE LimitInv'
<1>1. /\ UNCHANGED <<limiter, tick, window, codes, bucket>>
      /\ level' = level + 1 /\ limitFaults' = limitFaults + 1
      /\ level \in Nat /\ limitFaults \in Nat /\ Capacity \in Nat
  BY BucketAssumption DEF Li!PassAnyway, LimitInv, LimitTypes
<1>2. Brimming'
  <2>1. bucket \in Bucket /\ tick - bucket.last \in Nat
    BY DEF LimitInv, LimitTypes, Bucket
  <2> PICK flow \in Nat : flow = (tick - bucket.last) * Rate
    BY <2>1, FlowType
  <2>2. Fill \in 0 .. Capacity
    BY <2>1, RefilledIs DEF Fill
  <2>3. Fill' = Fill
    BY <1>1 DEF Fill, Li!Refilled
  <2> QED
    BY <1>1, <2>2, <2>3 DEF LimitInv, Brimming
<1>3. LimitTypes'
  BY <1>1 DEF LimitInv, LimitTypes
<1>4. Paced' /\ Counting'
  BY <1>1 DEF LimitInv, Paced, Counting, DayHolds, HourHolds, Held, Since, Before, Within, Most
<1> QED
  BY <1>2, <1>3, <1>4 DEF LimitInv

\* A moment goes by: no window gets more codes in it, and no more flows in than the level
\* falls by, unless it has fallen to nothing.
LEMMA LimitTickStep == ASSUME LimitInv, Li!LimitTick PROVE LimitInv'
<1>1. /\ LimitTypes /\ tick \in Nat \ {0} /\ tick' = tick + 1 /\ tick + 1 \in Nat \ {0}
      /\ level' = (IF level > Rate THEN level - Rate ELSE 0) /\ limitFaults \in Nat
      /\ bucket.last <= bucket.ts /\ UNCHANGED <<limiter, window, codes, bucket, limitFaults>>
      /\ bucket \in Bucket /\ bucket.last <= tick /\ bucket.last \in Nat /\ level \in Nat
      /\ Rate \in Nat \ {0} /\ Capacity \in Nat /\ bucket.tokens \in 0 .. Capacity
      /\ window.last \in Nat /\ window.last <= tick /\ window \in Windows /\ codes \subseteq 1 .. tick
  BY BucketAssumption DEF LimitInv, LimitTypes, Li!LimitTick, Li!Less, Windows, Bucket
<1>2. LimitTypes'
  <2>1. level' \in Nat /\ codes \subseteq 1 .. tick + 1 /\ window.last <= tick + 1 /\ bucket.last <= tick + 1
    BY <1>1
  <2> QED
    BY <1>1, <2>1 DEF LimitTypes
<1>3. Paced'
  <2>1. \A c \in codes : c \in Nat
    BY <1>1
  <2> QED
    BY <1>1, <2>1, LimitsAssumption DEF LimitInv, Paced
<1>4. Counting'
  <2>1. \A n \in Nat : Cardinality(Within(n, tick + 1)) <= Cardinality(Within(n, tick))
    <3> SUFFICES ASSUME NEW n \in Nat PROVE Within(n, tick + 1) \subseteq Within(n, tick)
      BY <1>1, Fewer DEF Within
    <3> SUFFICES ASSUME NEW c \in Within(n, tick + 1) PROVE c \in Within(n, tick)
      OBVIOUS
    <3>1. c \in codes /\ c > (tick + 1) - n
      BY DEF Within
    <3>2. c > tick - n /\ c <= tick
      BY <1>1, <3>1
    <3> QED
      BY <3>1, <3>2 DEF Within
  <2>2. /\ Hour \in Nat /\ Day \in Nat /\ PerDay \in Nat /\ PerHour \in Nat /\ Most \in Nat
        /\ \A n, t : Cardinality(Within(n, t)) \in Nat
    BY <1>1, LimitsAssumption, MostType, CodesAreFinite DEF Within
  <2>3. window = Li!Fresh => /\ Cardinality(Within(Day, tick + 1)) <= PerDay
                             /\ Cardinality(Within(Hour, tick + 1)) <= Most
    <3> SUFFICES ASSUME window = Li!Fresh
                 PROVE  /\ Cardinality(Within(Day, tick + 1)) <= PerDay
                        /\ Cardinality(Within(Hour, tick + 1)) <= Most
      OBVIOUS
    <3>1. Cardinality(Within(Day, tick)) <= PerDay /\ Cardinality(Within(Hour, tick)) <= Most
      BY DEF LimitInv, Counting
    <3>2. /\ Cardinality(Within(Day, tick + 1)) <= Cardinality(Within(Day, tick))
          /\ Cardinality(Within(Hour, tick + 1)) <= Cardinality(Within(Hour, tick))
          /\ Cardinality(Within(Day, tick + 1)) \in Nat /\ Cardinality(Within(Hour, tick + 1)) \in Nat
          /\ Cardinality(Within(Day, tick)) \in Nat /\ Cardinality(Within(Hour, tick)) \in Nat
      BY <2>1, <2>2
    <3> QED
      BY <2>2, <3>1, <3>2
  <2>4. window # Li!Fresh => DayHolds(window)' /\ HourHolds(window)'
    <3> SUFFICES ASSUME window # Li!Fresh PROVE DayHolds(window)' /\ HourHolds(window)'
      OBVIOUS
    <3>1. DayHolds(window) /\ HourHolds(window) /\ window.dayStart \in Nat /\ window.hourStart \in Nat
      BY <1>1 DEF LimitInv, Counting, Windows
    <3>2. \A s \in Nat : s <= tick => s <= tick'
      BY <1>1
    <3> QED
      BY <1>1, <3>1, <3>2 DEF DayHolds, HourHolds, Held, Since, Before, Most
  <2>5. \A n, t : Within(n, t)' = Within(n, t)
    BY <1>1 DEF Within
  <2>6. Within(Day, tick)' = Within(Day, tick + 1) /\ Within(Hour, tick)' = Within(Hour, tick + 1)
    BY <1>1 DEF Within
  <2>7. Most' = Most
    BY <1>1 DEF Most
  <2> QED
    BY <1>1, <2>3, <2>4, <2>5, <2>6, <2>7 DEF LimitInv, Counting
<1>5. Brimming'
  <2> PICK flow \in Nat : flow = (tick - bucket.last) * Rate
    BY <1>1, FlowType
  <2>1. Fill = IF bucket.tokens + flow <= Capacity THEN bucket.tokens + flow ELSE Capacity
    BY <1>1, RefilledIs DEF Fill
  <2>2. (tick + 1 - bucket.last) * Rate = flow + Rate
    <3>1. tick + 1 - bucket.last = (tick - bucket.last) + 1 /\ tick - bucket.last \in Nat
      BY <1>1
    <3> QED
      BY <3>1, FlowType
  <2>3. Fill' = IF bucket.tokens + flow + Rate <= Capacity
                THEN bucket.tokens + flow + Rate ELSE Capacity
    <3> PICK past, more \in Nat : past = tick + 1 - bucket.last /\ more = flow + Rate
      BY <1>1
    <3>0. bucket' = bucket /\ tick' - bucket.last = past
      BY <1>1
    <3>1. Fill' = Li!Refilled(bucket, past)
      BY <3>0 DEF Fill, Li!Refilled
    <3>2. Li!Refilled(bucket, past) = IF bucket.tokens + more <= Capacity THEN bucket.tokens + more ELSE Capacity
      BY <1>1, <2>2, RefilledIs
    <3> QED
      BY <1>1, <3>1, <3>2
  <2>4. level + Fill <= Capacity + limitFaults
    BY DEF LimitInv, Brimming
  <2>5. level' + Fill' <= Capacity + limitFaults
    BY <1>1, <2>1, <2>3, <2>4
  <2> QED
    BY <1>1, <2>5 DEF LimitInv, Brimming
<1> QED
  BY <1>2, <1>3, <1>4, <1>5 DEF LimitInv

\* What is within a sum is within a larger one.
LEMMA StillWithin ==
  ASSUME NEW a \in Nat, NEW b \in Nat, NEW c \in Nat, NEW l \in Nat, NEW m \in Nat,
         a + b <= c + l, l <= m
  PROVE  a + b <= c + m
OBVIOUS

\* All of Limits.
LEMMA LimitsStep == ASSUME LimitInv, [Li!LimitsNext]_limits PROVE LimitInv'
<1>1. CASE UNCHANGED <<limiter, tick, window, codes, bucket, level>> /\ limitFaults' \in {limitFaults, limitFaults + 1}
  <2>1. Paced' /\ Counting'
    BY <1>1 DEF LimitInv, Paced, Counting, DayHolds, HourHolds, Held, Since, Before, Within, Most
  <2>2. bucket \in Bucket /\ tick - bucket.last \in Nat /\ level \in Nat /\ limitFaults \in Nat /\ Capacity \in Nat
    BY BucketAssumption DEF LimitInv, LimitTypes, Bucket
  <2>3. Fill \in 0 .. Capacity
    <3> PICK flow \in Nat : flow = (tick - bucket.last) * Rate
      BY <2>2, FlowType
    <3> QED
      BY <2>2, RefilledIs DEF Fill
  <2>4. Fill' = Fill
    BY <1>1 DEF Fill, Li!Refilled
  <2>5. Brimming'
    <3>1. level + Fill <= Capacity + limitFaults /\ (bucket.last = 0 => bucket.tokens = Capacity)
      BY DEF LimitInv, Brimming
    <3>2. level' + Fill' <= Capacity + limitFaults'
      <4>1. level' = level /\ limitFaults' \in Nat /\ limitFaults <= limitFaults'
        BY <1>1, <2>2
      <4>2. level \in Nat /\ limitFaults \in Nat /\ Capacity \in Nat /\ Fill \in Nat
        BY <2>2, <2>3
      <4> QED
        BY <2>4, <3>1, <4>1, <4>2, StillWithin
    <3> QED
      BY <1>1, <3>1, <3>2 DEF Brimming
  <2>6. LimitTypes'
    BY <1>1, <2>2 DEF LimitInv, LimitTypes
  <2> QED
    BY <2>1, <2>5, <2>6 DEF LimitInv
<1>2. CASE Li!AllowInMemory \/ Li!AllowInRedis
  <2>1. UNCHANGED <<limiter, tick, bucket, level, limitFaults>>
    BY <1>2 DEF Li!AllowInMemory, Li!AllowInRedis
  <2>2. \/ UNCHANGED <<window, codes>>
        \/ ~Li!Cooling(window) /\ window' = Li!Turned(window) /\ UNCHANGED codes
        \/ /\ ~Li!Cooling(window) /\ Li!Room(Li!Turned(window))
           /\ window' = Li!Counted(Li!Turned(window)) /\ codes' = codes \cup {tick}
    BY <1>2 DEF Li!AllowInMemory, Li!AllowInRedis
  <2> QED
    BY <1>1, <2>1, <2>2, QuietAnswer, Answered
<1> QED
  BY <1>1, <1>2, SweepNumbersStep, RequestSteps, PassAnywayStep, LimitTickStep
     DEF Li!LimitsNext, Li!SendAnyway, limits

\* A code is sent without asking only when Redis fails.
LEMMA OwedStep == ASSUME Owed, [Li!LimitsNext]_limits PROVE Owed'
<1>0. limitFaults \in Nat /\ IsFiniteSet(unasked) /\ Cardinality(unasked) \in Nat
  BY FS_CardinalityType DEF Owed
<1>1. CASE unasked' = unasked /\ limitFaults' \in {limitFaults, limitFaults + 1}
  BY <1>0, <1>1 DEF Owed
<1>2. CASE Li!SendAnyway
  <2> PICK u : u = <<tick, limitFaults'>>
    OBVIOUS
  <2>1. unasked' = unasked \cup {u} /\ limitFaults' = limitFaults + 1
    BY <1>2 DEF Li!SendAnyway
  <2>2. /\ IsFiniteSet(unasked \cup {u})
        /\ Cardinality(unasked \cup {u}) \in {Cardinality(unasked), Cardinality(unasked) + 1}
    BY <1>0, FS_AddElement
  <2> QED
    BY <1>0, <2>1, <2>2 DEF Owed
<1> QED
  BY <1>1, <1>2 DEF Li!LimitsNext, Li!AllowInMemory, Li!AllowInRedis, Li!SweepNumbers, Li!RateInMemory,
     Li!RateInRedis, Li!PassAnyway, Li!LimitTick, limits

\* Nothing was asked yet.
LEMMA LimitsStart == Li!LimitsInit => LimitInv
<1> SUFFICES ASSUME Li!LimitsInit PROVE LimitInv
  OBVIOUS
<1>1. LimitTypes
  <2>1. Li!Fresh \in Windows /\ Li!Fresh.last = 0
    BY DEF Li!Fresh, Windows
  <2>2. Li!Full \in Bucket /\ Li!Full.last = 0 /\ Li!Full.ts = 0
    BY BucketAssumption DEF Li!Full, Bucket
  <2>3. tick = 1 /\ window = Li!Fresh /\ codes = {} /\ bucket = Li!Full /\ level = 0 /\ limitFaults = 0
    BY DEF Li!LimitsInit
  <2> QED
    BY <2>1, <2>2, <2>3 DEF LimitTypes
<1>2. Paced
  BY DEF Li!LimitsInit, Paced
<1>3. Counting
  <2>1. \A n, t : Within(n, t) = {}
    BY DEF Li!LimitsInit, Within
  <2>2. \A n, t : Cardinality(Within(n, t)) = 0
    BY <2>1, FS_EmptySet
  <2>3. 0 <= PerDay /\ 0 <= Most /\ 0 <= PerDay + PerDay /\ 0 <= PerHour + Most
    BY MostType, LimitsAssumption
  <2>4. window = Li!Fresh
    BY DEF Li!LimitsInit
  <2> QED
    BY <2>2, <2>3, <2>4 DEF Counting
<1>4. Brimming
  <2>1. bucket \in Bucket /\ bucket.tokens = Capacity /\ bucket.last = 0 /\ tick = 1 /\ level = 0 /\ limitFaults = 0
    BY <1>1 DEF Li!LimitsInit, LimitTypes, Li!Full
  <2>2. Rate \in Nat /\ Rate = (tick - bucket.last) * Rate /\ Capacity \in Nat
    BY <2>1, BucketAssumption
  <2>3. Fill = IF bucket.tokens + Rate <= Capacity THEN bucket.tokens + Rate ELSE Capacity
    BY <2>1, <2>2, RefilledIs DEF Fill
  <2> QED
    BY <2>1, <2>2, <2>3 DEF Brimming
<1> QED
  BY <1>1, <1>2, <1>3, <1>4 DEF LimitInv

\* And so it stays, whatever part of the market a behaviour is about.
LEMMA LimitsInvariant == MarketSpec => [](LimitInv /\ Owed)
<1>1. MarketInit => LimitInv /\ Owed
  <2>1. ASSUME Li!LimitsInit PROVE Owed
    <3>1. unasked = {} /\ limitFaults = 0
      BY <2>1 DEF Li!LimitsInit
    <3> QED
      BY <3>1, FS_EmptySet DEF Owed
  <2> QED
    BY <2>1, LimitsStart DEF MarketInit
<1>2. (LimitInv /\ Owed) /\ [MarketNext]_marketVars => (LimitInv /\ Owed)'
  <2> SUFFICES ASSUME LimitInv, Owed, [MarketNext]_marketVars PROVE (LimitInv /\ Owed)'
    OBVIOUS
  <2>1. UNCHANGED limits \/ Li!LimitsNext
    BY DEF MarketNext, marketVars
  <2> QED
    BY <2>1, LimitsStep, OwedStep
<1> QED
  BY <1>1, <1>2, PTL DEF MarketSpec

\* LimitsHold: codes are Cooldown apart and within twice the daily and the hourly limit, an
\* hour of a swept number within three times, and requests within a full bucket and what
\* flows into it, with time and by the clocks of the pods, and one more for each failure
\* of Redis (identity/otp_limit.go, httpx/middleware.go, ratelimit_redis.go).
THEOREM WithinLimits == MarketSpec => []LimitsHold
<1>1. LimitInv /\ Owed => LimitsHold
  <2> SUFFICES ASSUME LimitInv, Owed PROVE Li!LimitsHold
    BY DEF LimitsHold
  <2>1. \A c, d \in codes : c < d => d - c >= Cooldown
    BY DEF LimitInv, Paced
  <2>2. level <= Capacity + limitFaults
    <3>1. bucket \in Bucket /\ tick - bucket.last \in Nat /\ level \in Nat /\ limitFaults \in Nat
      BY DEF LimitInv, LimitTypes, Bucket
    <3> PICK flow \in Nat : flow = (tick - bucket.last) * Rate
      BY <3>1, FlowType
    <3>2. Fill \in 0 .. Capacity
      BY <3>1, RefilledIs DEF Fill
    <3> QED
      BY <3>1, <3>2, BucketAssumption DEF LimitInv, Brimming
  <2>3. ASSUME NEW t \in Li!Ticks
        PROVE  /\ Li!CodesWithin(Day, t) <= 2 * PerDay + limitFaults
               /\ Li!CodesWithin(Hour, t) <=
                    (IF limiter = "codes memory" THEN 3 ELSE 2) * PerHour + limitFaults
    <3> DEFINE Sent(n) == {u \in unasked : u[1] > t - n /\ u[1] <= t}
    <3>1. t \in Nat
      BY <2>3 DEF Li!Ticks
    <3>2. /\ Cardinality(Within(Day, t)) <= PerDay + PerDay
          /\ Cardinality(Within(Hour, t)) <= PerHour + Most
      BY <3>1 DEF LimitInv, Counting
    <3>3. \A n : /\ Li!CodesWithin(n, t) = Cardinality(Within(n, t)) + Cardinality(Sent(n))
                 /\ Cardinality(Within(n, t)) \in Nat
                 /\ Cardinality(Sent(n)) \in Nat /\ Cardinality(Sent(n)) <= limitFaults
      <4> SUFFICES ASSUME NEW n
                   PROVE  /\ Li!CodesWithin(n, t) = Cardinality(Within(n, t)) + Cardinality(Sent(n))
                          /\ Cardinality(Within(n, t)) \in Nat
                          /\ Cardinality(Sent(n)) \in Nat /\ Cardinality(Sent(n)) <= limitFaults
        OBVIOUS
      <4>1. Li!CodesWithin(n, t) = Cardinality(Within(n, t)) + Cardinality(Sent(n))
        BY SameCount DEF Li!CodesWithin, Within
      <4>2. Cardinality(Within(n, t)) \in Nat
        BY CodesAreFinite DEF LimitInv, Within
      <4>3. /\ IsFiniteSet(Sent(n)) /\ Cardinality(Sent(n)) <= Cardinality(unasked)
            /\ Cardinality(Sent(n)) \in Nat /\ Cardinality(unasked) \in Nat
        <5>1. Sent(n) \subseteq unasked
          OBVIOUS
        <5> QED
          BY <5>1, FS_Subset, FS_CardinalityType DEF Owed
      <4> QED
        BY <4>1, <4>2, <4>3 DEF Owed
    <3>4. PerHour + Most = (IF limiter = "codes memory" THEN 3 ELSE 2) * PerHour
      <4>1. PerHour + (PerHour + PerHour) = 3 * PerHour /\ PerHour + PerHour = 2 * PerHour
        BY LimitsAssumption
      <4> QED
        BY <4>1 DEF Most
    <3> HIDE DEF Sent
    <3>5. /\ limitFaults \in Nat /\ PerDay + PerDay \in Nat /\ PerHour + Most \in Nat
          /\ PerDay + PerDay = 2 * PerDay
      BY LimitsAssumption, MostType DEF Owed
    <3>6. Li!CodesWithin(Day, t) <= 2 * PerDay + limitFaults
      <4> PICK in, out \in Nat : in = Cardinality(Within(Day, t)) /\ out = Cardinality(Sent(Day))
        BY <3>3
      <4>1. /\ Li!CodesWithin(Day, t) = in + out /\ in <= PerDay + PerDay /\ out <= limitFaults
        BY <3>2, <3>3
      <4> QED
        BY <3>5, <4>1
    <3>7. Li!CodesWithin(Hour, t) <= (PerHour + Most) + limitFaults
      <4> PICK in, out \in Nat : in = Cardinality(Within(Hour, t)) /\ out = Cardinality(Sent(Hour))
        BY <3>3
      <4>1. /\ Li!CodesWithin(Hour, t) = in + out /\ in <= PerHour + Most /\ out <= limitFaults
        BY <3>2, <3>3
      <4> QED
        BY <3>5, <4>1
    <3> QED
      BY <3>4, <3>6, <3>7
  <2> QED
    BY <2>1, <2>2, <2>3 DEF Li!LimitsHold
<1> QED
  BY <1>1, LimitsInvariant, PTL

-------------------------------------------------------------------------------
(* The copies of a booking (Booking).                                        *)

\* The copies that hold the key, and those that are told by it.
Owning(c) == copies[c].step \in {"owner", "bookable", "created", "searching", "release"}
Active(c) == copies[c].step \notin {"new", "end", "dead"}

KeyTypes ==
  /\ slot \in Copies \cup {"none", "held"} /\ life \in Nat /\ lost \in Nat
  /\ copies \in [Copies -> [step : {"new", "end", "dead", "get", "again", "busy", "stored",
                                    "owner", "bookable", "created", "searching", "release"},
                            life : Nat,
                            answer : Copies \cup {"none", "held", "error", "in flight"}]]

Looked == {t \in trips : t.status = "SEARCHING"}

\* One copy at a time holds the key, and the slot says so.
OneOwner ==
  /\ \A c, d \in Copies : Owning(c) /\ Owning(d) => c = d
  /\ \A c \in Copies : Owning(c) => slot = "held"

\* A running copy is of the present life of the key, and was told nothing yet.
RunningIsNow ==
  \A c \in Copies :
    /\ Active(c) => copies[c].life = life /\ copies[c].answer = "none"
    /\ copies[c].step = "new" => copies[c].answer = "none"
    /\ copies[c].step = "stored" => slot \in Copies

\* A life has one trip that is searched for; while its owner lives it is his.
OneLooked ==
  /\ \A t, u \in Looked : t.life = u.life => t.of = u.of
  /\ \A t \in Looked : t.life <= life
  /\ \A t \in Looked : t.life = life =>
       /\ slot # "none" /\ (slot \in Copies => slot = t.of)
       /\ \A c \in Copies : Owning(c) => t.of = c /\ copies[c].step = "searching"

IsLooked(c, l) == [of |-> c, life |-> l, status |-> "SEARCHING"] \in trips

\* What a slot or an answer names is searched for.
NamedIsLooked ==
  /\ slot \in Copies => IsLooked(slot, life)
  /\ \A c \in Copies :
       /\ copies[c].step = "searching" => IsLooked(c, life)
       /\ copies[c].answer \in Copies => IsLooked(copies[c].answer, copies[c].life)

TripShape == \A t \in trips : /\ t = [of |-> t.of, life |-> t.life, status |-> t.status]
                              /\ t.of \in Copies /\ t.life \in Nat

KeyInv == KeyTypes /\ (lost = 0 => OneOwner /\ RunningIsNow /\ OneLooked /\ NamedIsLooked /\ TripShape)

-------------------------------------------------------------------------------
CopySteps == {"new", "end", "dead", "get", "again", "busy", "stored",
              "owner", "bookable", "created", "searching", "release"}
Answers == Copies \cup {"none", "held", "error", "in flight"}

\* A copy goes on.
Turn(c, s, l, a) == copies' = [copies EXCEPT ![c] = [step |-> s, life |-> l, answer |-> a]]

\* One copy goes on.
LEMMA Turns ==
  ASSUME KeyTypes, NEW c \in Copies, NEW s \in CopySteps, NEW a \in Answers
  PROVE  /\ Bo!Go(c, s) => Turn(c, s, copies[c].life, copies[c].answer)
         /\ Bo!Say(c, a) => Turn(c, "end", copies[c].life, a)
         /\ Bo!Take(c, s) => Turn(c, IF slot = "none" THEN "owner" ELSE s, life, copies[c].answer)
<1> DEFINE t == IF slot = "none" THEN "owner" ELSE s
           r == copies[c]
<1>1. r \in [step : CopySteps, life : Nat, answer : Answers] /\ copies \in [Copies -> [step : CopySteps, life : Nat, answer : Answers]]
  BY DEF KeyTypes, CopySteps, Answers
<1>0. t \in CopySteps /\ life \in Nat
  BY DEF KeyTypes, CopySteps
<1> HIDE DEF t, r
<1>2. [r EXCEPT !.step = s] = [step |-> s, life |-> r.life, answer |-> r.answer]
  BY <1>1
<1>3. [r EXCEPT !.step = "end", !.answer = a] = [step |-> "end", life |-> r.life, answer |-> a]
  <2> DEFINE q == [r EXCEPT !.step = "end"]
  <2>1. /\ q = [step |-> "end", life |-> r.life, answer |-> r.answer]
        /\ q \in [step : CopySteps, life : Nat, answer : Answers]
    BY <1>1 DEF CopySteps
  <2> HIDE DEF q
  <2>2. [q EXCEPT !.answer = a] = [step |-> "end", life |-> r.life, answer |-> a]
    BY <2>1
  <2> QED
    BY <2>2 DEF q
<1>4. [r EXCEPT !.life = life, !.step = t] = [step |-> t, life |-> life, answer |-> r.answer]
  <2> DEFINE q == [r EXCEPT !.life = life]
  <2>1. /\ q = [step |-> r.step, life |-> life, answer |-> r.answer]
        /\ q \in [step : CopySteps, life : Nat, answer : Answers]
    BY <1>0, <1>1
  <2> HIDE DEF q
  <2>2. [q EXCEPT !.step = t] = [step |-> t, life |-> life, answer |-> r.answer]
    BY <2>1
  <2> QED
    BY <2>2 DEF q
<1>5. /\ Bo!Go(c, s) => copies' = [copies EXCEPT ![c] = [r EXCEPT !.step = s]]
      /\ Bo!Say(c, a) => copies' = [copies EXCEPT ![c] = [r EXCEPT !.step = "end", !.answer = a]]
      /\ Bo!Take(c, s) => copies' = [copies EXCEPT ![c] = [r EXCEPT !.life = life, !.step = t]]
  BY <1>1 DEF Bo!Go, Bo!Say, Bo!Take, r, t
<1> QED
  BY <1>2, <1>3, <1>4, <1>5 DEF Turn, r, t

\* What a turn leaves alone.
LEMMA Turned ==
  ASSUME KeyTypes, NEW c \in Copies, NEW s \in CopySteps, NEW l \in Nat, NEW a \in Answers,
         Turn(c, s, l, a), slot' \in Copies \cup {"none", "held"}, life' \in Nat, lost' \in Nat
  PROVE  /\ KeyTypes'
         /\ copies'[c].step = s /\ copies'[c].life = l /\ copies'[c].answer = a
         /\ \A d \in Copies : d # c => copies'[d] = copies[d]
BY DEF Turn, KeyTypes, CopySteps, Answers

\* A copy goes on without the key, or with what it has of it.
LEMMA QuietTurn ==
  ASSUME KeyInv, NEW c \in Copies, NEW s \in CopySteps, NEW a \in Answers,
         Turn(c, s, copies[c].life, a),
         UNCHANGED <<slot, life, trips, lost>>,
         lost = 0 =>
           /\ s \in {"owner", "bookable", "created", "searching", "release"}
                => Owning(c) /\ copies[c].step # "searching" /\ s # "searching"
           /\ s \notin {"end", "dead"} => Active(c) /\ a = "none"
           /\ s = "stored" => slot \in Copies
           /\ s # "new"
           /\ a \in Copies => IsLooked(a, copies[c].life)
  PROVE  KeyInv'
<1>1. /\ KeyTypes /\ copies[c].life \in Nat
      /\ slot' \in Copies \cup {"none", "held"} /\ life' \in Nat /\ lost' \in Nat
  BY DEF KeyInv, KeyTypes
<1>2. /\ KeyTypes'
      /\ copies'[c].step = s /\ copies'[c].life = copies[c].life /\ copies'[c].answer = a
      /\ \A d \in Copies : d # c => copies'[d] = copies[d]
  BY <1>1, Turned
<1> SUFFICES ASSUME lost' = 0
             PROVE  (OneOwner /\ RunningIsNow /\ OneLooked /\ NamedIsLooked /\ TripShape)'
  BY <1>2 DEF KeyInv
<1>3. lost = 0 /\ OneOwner /\ RunningIsNow /\ OneLooked /\ NamedIsLooked /\ TripShape
  BY DEF KeyInv
<1>4. OneOwner'
  BY <1>2, <1>3 DEF OneOwner, Owning
<1>5. RunningIsNow'
  BY <1>2, <1>3 DEF RunningIsNow, Active, CopySteps
<1>6. OneLooked'
  BY <1>2, <1>3 DEF OneLooked, Owning, Looked
<1>7. NamedIsLooked'
  BY <1>2, <1>3 DEF NamedIsLooked, IsLooked
<1> QED
  BY <1>3, <1>4, <1>5, <1>6, <1>7 DEF TripShape

\* A copy asks for the key: it has it, or it is somebody's.
LEMMA TakeStep ==
  ASSUME KeyInv, NEW c \in Copies, copies[c].step \in {"new", "again"},
         NEW s \in {"get", "busy", "stored"}, s = "stored" => slot \in Copies \cup {"none"},
         slot' = (IF slot = "none" THEN "held" ELSE slot),
         Turn(c, IF slot = "none" THEN "owner" ELSE s, life, copies[c].answer),
         UNCHANGED <<life, trips, lost>>
  PROVE  KeyInv'
<1> DEFINE t == IF slot = "none" THEN "owner" ELSE s
<1>1. /\ KeyTypes /\ t \in CopySteps /\ copies[c].answer \in Answers /\ life \in Nat
      /\ slot' \in Copies \cup {"none", "held"} /\ life' \in Nat /\ lost' \in Nat
  BY DEF KeyInv, KeyTypes, CopySteps, Answers
<1> HIDE DEF t
<1>2. /\ KeyTypes'
      /\ copies'[c].step = t /\ copies'[c].life = life /\ copies'[c].answer = copies[c].answer
      /\ \A d \in Copies : d # c => copies'[d] = copies[d]
  BY <1>1, Turned DEF t
<1> USE DEF t
<1> SUFFICES ASSUME lost' = 0
             PROVE  (OneOwner /\ RunningIsNow /\ OneLooked /\ NamedIsLooked /\ TripShape)'
  BY <1>2 DEF KeyInv
<1>3. /\ OneOwner /\ RunningIsNow /\ OneLooked /\ NamedIsLooked /\ TripShape
      /\ copies[c].answer = "none"
  BY DEF KeyInv, RunningIsNow, Active
<1>a. "held" \notin Copies /\ "none" \notin Copies
  BY BookingAssumption
<1>4. OneOwner'
  BY <1>2, <1>3 DEF OneOwner, Owning
<1>5. RunningIsNow'
  BY <1>2, <1>3, <1>a DEF RunningIsNow, Active
<1>6. OneLooked'
  BY <1>2, <1>3, <1>a DEF OneLooked, Owning, Looked
<1>7. NamedIsLooked'
  BY <1>2, <1>3, <1>a DEF NamedIsLooked, IsLooked
<1> QED
  BY <1>3, <1>4, <1>5, <1>6, <1>7 DEF TripShape

\* The work was done and the reply was lost: the property says nothing any more.
LEMMA LostStep ==
  ASSUME KeyTypes, Bo!Lose, NEW c \in Copies, NEW s \in CopySteps, NEW a \in Answers,
         Turn(c, s, copies[c].life, a), slot' \in {slot, "held"}, life' = life
  PROVE  KeyInv'
<1>0. lost' = lost + 1 /\ lost \in Nat /\ copies[c].life \in Nat
  BY DEF Bo!Lose, KeyTypes
<1>1. lost' \in Nat /\ lost' # 0 /\ copies[c].life \in Nat
  BY <1>0
<1>2. KeyTypes'
  BY <1>1, Turned DEF KeyTypes
<1> QED
  BY <1>1, <1>2 DEF KeyInv

\* The owner writes the trip, and then that it is searched for.
LEMMA TripStep ==
  ASSUME KeyInv, NEW c \in Copies, Owning(c), copies[c].step # "searching",
         NEW s \in {"created", "searching", "release"},
         UNCHANGED <<slot, life, lost>>,
         Turn(c, s, copies[c].life, copies[c].answer),
         \/ s # "searching" /\ trips' = trips \cup {Bo!Trip(c, "CREATED")}
         \/ s = "searching" /\ trips' = Bo!Searching(c)
  PROVE  KeyInv'
<1>1. /\ KeyTypes /\ copies[c].life \in Nat /\ copies[c].answer \in Answers /\ s \in CopySteps
      /\ slot' \in Copies \cup {"none", "held"} /\ life' \in Nat /\ lost' \in Nat
  BY DEF KeyInv, KeyTypes, Answers, CopySteps
<1>2. /\ KeyTypes'
      /\ copies'[c].step = s /\ copies'[c].life = copies[c].life
      /\ copies'[c].answer = copies[c].answer
      /\ \A d \in Copies : d # c => copies'[d] = copies[d]
  BY <1>1, Turned
<1> SUFFICES ASSUME lost' = 0
             PROVE  (OneOwner /\ RunningIsNow /\ OneLooked /\ NamedIsLooked /\ TripShape)'
  BY <1>2 DEF KeyInv
<1>3. OneOwner /\ RunningIsNow /\ OneLooked /\ NamedIsLooked /\ TripShape
  BY DEF KeyInv
<1>4. slot = "held" /\ slot \notin Copies /\ copies[c].life = life /\ copies[c].answer = "none"
  BY <1>3, BookingAssumption DEF OneOwner, RunningIsNow, Owning, Active
<1>5. \A t \in Looked : t.life # life
  BY <1>3 DEF OneLooked
<1> DEFINE mine == [of |-> c, life |-> life, status |-> "SEARCHING"]
<1>6. /\ Looked' = IF s = "searching" THEN Looked \cup {mine} ELSE Looked
      /\ TripShape'
  <2>1. \A x : /\ Bo!Trip(c, x) = [of |-> c, life |-> life, status |-> x]
              /\ Bo!Trip(c, x).of = c /\ Bo!Trip(c, x).life = life /\ Bo!Trip(c, x).status = x
    BY <1>4 DEF Bo!Trip
  <2>2. CASE s # "searching"
    BY <2>1, <2>2, <1>1, <1>3, <1>4 DEF Looked, TripShape
  <2>3. CASE s = "searching"
    BY <2>1, <2>3, <1>1, <1>3, <1>4 DEF Looked, TripShape, Bo!Searching
  <2> QED
    BY <2>2, <2>3
<1>7. \A x \in Looked' : x \in Looked \/ (s = "searching" /\ x = mine /\ x.of = c /\ x.life = life)
  BY <1>6
<1>8. \A a, l : IsLooked(a, l) => IsLooked(a, l)'
  <2> SUFFICES ASSUME NEW a, NEW l, IsLooked(a, l) PROVE IsLooked(a, l)'
    OBVIOUS
  <2>1. [of |-> a, life |-> l, status |-> "SEARCHING"] \in Looked
    BY DEF IsLooked, Looked
  <2> QED
    BY <2>1, <1>6 DEF Looked, IsLooked
<1>9. s = "searching" => IsLooked(c, life)'
  BY <1>6 DEF Looked, IsLooked
<1>10. OneOwner'
  BY <1>2, <1>3 DEF OneOwner, Owning
<1>11. RunningIsNow'
  BY <1>2, <1>3, <1>4 DEF RunningIsNow, Active
<1>12. OneLooked'
  <2>1. \A d \in Copies : Owning(d)' => d = c
    BY <1>2, <1>3 DEF OneOwner, Owning
  <2>2. life \in Nat /\ life' = life /\ slot' = slot
    BY <1>1 DEF KeyTypes
  <2> HIDE DEF mine
  <2> QED
    BY <1>2, <1>3, <1>4, <1>5, <1>7, <2>1, <2>2 DEF OneLooked
<1>13. NamedIsLooked'
  <2> SUFFICES ASSUME NEW d \in Copies
               PROVE  /\ copies'[d].step = "searching" => IsLooked(d, life)'
                      /\ copies'[d].answer \in Copies
                           => \E a, l : /\ a = copies'[d].answer /\ l = copies'[d].life
                                        /\ IsLooked(a, l)'
    BY <1>4 DEF NamedIsLooked, IsLooked
  <2>1. CASE d = c
    BY <2>1, <1>2, <1>4, <1>9, BookingAssumption
  <2>2. CASE d # c
    BY <2>2, <1>2, <1>3, <1>8 DEF NamedIsLooked
  <2> QED
    BY <2>1, <2>2
<1> QED
  BY <1>6, <1>10, <1>11, <1>12, <1>13

\* The owner is done: the slot names the trip that is searched for, or is free when
\* there is none.
LEMMA OwnerEnds ==
  ASSUME KeyInv, NEW c \in Copies, NEW a \in Answers, UNCHANGED <<life, trips, lost>>,
         Turn(c, "end", copies[c].life, a),
         \/ copies[c].step = "searching" /\ a = c /\ slot' \in {slot, c}
         \/ copies[c].step = "release" /\ a = "error" /\ slot' \in {slot, "none"}
  PROVE  KeyInv'
<1>1. /\ KeyTypes /\ copies[c].life \in Nat /\ "end" \in CopySteps
      /\ slot' \in Copies \cup {"none", "held"} /\ life' \in Nat /\ lost' \in Nat
  BY DEF KeyInv, KeyTypes, CopySteps
<1>2. /\ KeyTypes'
      /\ copies'[c].step = "end" /\ copies'[c].life = copies[c].life /\ copies'[c].answer = a
      /\ \A d \in Copies : d # c => copies'[d] = copies[d]
  BY <1>1, Turned
<1> SUFFICES ASSUME lost' = 0
             PROVE  (OneOwner /\ RunningIsNow /\ OneLooked /\ NamedIsLooked /\ TripShape)'
  BY <1>2 DEF KeyInv
<1>3. OneOwner /\ RunningIsNow /\ OneLooked /\ NamedIsLooked /\ TripShape
  BY DEF KeyInv
<1>4. /\ slot = "held" /\ "held" \notin Copies /\ "none" \notin Copies /\ "error" \notin Copies
      /\ copies[c].life = life
      /\ \A d \in Copies : Owning(d) => d = c
  BY <1>3, BookingAssumption DEF OneOwner, RunningIsNow, Owning, Active
<1>5. \A d \in Copies : ~Owning(d)'
  BY <1>2, <1>4 DEF Owning
<1>6. OneOwner'
  BY <1>5 DEF OneOwner
<1>7. RunningIsNow'
  BY <1>2, <1>3, <1>4 DEF RunningIsNow, Active
<1>8. OneLooked'
  BY <1>3, <1>4, <1>5 DEF OneLooked, Owning, Looked
<1>9. NamedIsLooked'
  BY <1>2, <1>3, <1>4 DEF NamedIsLooked, IsLooked
<1> QED
  BY <1>3, <1>6, <1>7, <1>8, <1>9 DEF TripShape

\* The key begins a new life, when nobody is at it.
LEMMA ExpireStep == ASSUME KeyInv, Bo!Expire PROVE KeyInv'
<1>1. /\ slot' = "none" /\ life' = life + 1 /\ UNCHANGED <<copies, trips, lost>>
      /\ \A c \in Copies : ~Active(c) /\ ~Owning(c)
      /\ KeyTypes /\ life \in Nat /\ "none" \notin Copies
  BY BookingAssumption DEF Bo!Expire, Bo!Running, Active, Owning, KeyInv, KeyTypes
<1>2. KeyTypes'
  <2>1. life' \in Nat
    BY <1>1
  <2> QED
    BY <1>1, <2>1 DEF KeyTypes
<1> SUFFICES ASSUME lost' = 0
             PROVE  (OneOwner /\ RunningIsNow /\ OneLooked /\ NamedIsLooked /\ TripShape)'
  BY <1>2 DEF KeyInv
<1>3. OneOwner /\ RunningIsNow /\ OneLooked /\ NamedIsLooked /\ TripShape
  BY <1>1 DEF KeyInv
<1>4. OneOwner' /\ RunningIsNow' /\ NamedIsLooked'
  BY <1>1, <1>3 DEF OneOwner, RunningIsNow, NamedIsLooked, IsLooked, Active, Owning
<1>5. OneLooked'
  <2>1. \A t \in Looked' : t \in Looked /\ t.life \in Nat
    BY <1>1, <1>3 DEF Looked, TripShape
  <2> QED
    BY <1>1, <1>3, <2>1 DEF OneLooked
<1> QED
  BY <1>1, <1>3, <1>4, <1>5 DEF TripShape

\* All of Booking.
LEMMA BookingStep == ASSUME KeyInv, Bo!BookingNext PROVE KeyInv'
<1>1. /\ KeyTypes /\ lost \in Nat /\ \A c \in Copies : copies[c].answer \in Answers
      /\ "end" \in CopySteps /\ "error" \in Answers
  BY DEF KeyInv, KeyTypes, Answers, CopySteps
<1> USE DEF Bo!In, Bo!Fine, Bo!Fail
<1>2. ASSUME NEW c \in Copies, Bo!Reserve(c) PROVE KeyInv'
  <2>1. copies[c].step = "new" /\ UNCHANGED <<life, trips>>
    BY <1>2 DEF Bo!Reserve, Bo!Begun
  <2>2. CASE /\ slot' = (IF slot = "none" THEN "held" ELSE slot) /\ Bo!Fine
             /\ Bo!Take(c, IF store = "redis" THEN "get"
                           ELSE IF slot = "held" THEN "busy" ELSE "stored")
    <3> DEFINE s == IF store = "redis" THEN "get" ELSE IF slot = "held" THEN "busy" ELSE "stored"
    <3>1. /\ s \in {"get", "busy", "stored"} /\ s \in CopySteps
          /\ s = "stored" => slot \in Copies \cup {"none"}
      BY <1>1 DEF CopySteps, KeyTypes
    <3>2. Bo!Take(c, s)
      BY <2>2
    <3> HIDE DEF s
    <3>3. Turn(c, IF slot = "none" THEN "owner" ELSE s, life, copies[c].answer)
      BY <1>1, <3>1, <3>2, Turns DEF Answers
    <3> QED
      BY <2>1, <2>2, <3>1, <3>3, TakeStep
  <2>3. CASE Bo!Say(c, "error") /\ UNCHANGED slot /\ Bo!Fail
    BY <1>1, <2>1, <2>3, Turns, QuietTurn, BookingAssumption
  <2>4. CASE /\ Bo!Say(c, "error") /\ Bo!Lose
             /\ slot' = (IF slot = "none" THEN "held" ELSE slot)
    BY <1>1, <2>1, <2>4, Turns, LostStep
  <2> QED
    BY <1>2, <2>2, <2>3, <2>4 DEF Bo!Reserve
<1>3. ASSUME NEW c \in Copies, Bo!ReserveAgain(c) PROVE KeyInv'
  <2>1. copies[c].step = "again" /\ UNCHANGED <<life, trips>>
    BY <1>3 DEF Bo!ReserveAgain
  <2>2. CASE /\ slot' = (IF slot = "none" THEN "held" ELSE slot) /\ Bo!Take(c, "busy") /\ Bo!Fine
    <3>1. Turn(c, IF slot = "none" THEN "owner" ELSE "busy", life, copies[c].answer)
      BY <1>1, <2>2, Turns DEF Answers, CopySteps
    <3> QED
      BY <2>1, <2>2, <3>1, TakeStep
  <2>3. CASE Bo!Say(c, "error") /\ UNCHANGED slot /\ Bo!Fail
    BY <1>1, <2>1, <2>3, Turns, QuietTurn, BookingAssumption
  <2>4. CASE /\ Bo!Say(c, "error") /\ Bo!Lose
             /\ slot' = (IF slot = "none" THEN "held" ELSE slot)
    BY <1>1, <2>1, <2>4, Turns, LostStep
  <2> QED
    BY <1>3, <2>2, <2>3, <2>4 DEF Bo!ReserveAgain
<1>4. ASSUME NEW c \in Copies, Bo!GetSlot(c) PROVE KeyInv'
  <2>1. copies[c].step = "get" /\ UNCHANGED <<slot, life, trips, lost>>
    BY <1>4 DEF Bo!GetSlot
  <2>2. CASE Bo!Go(c, IF slot = "none" THEN "again" ELSE IF slot = "held" THEN "busy" ELSE "stored")
    <3> DEFINE s == IF slot = "none" THEN "again" ELSE IF slot = "held" THEN "busy" ELSE "stored"
    <3>1. s \in {"again", "busy", "stored"} /\ s \in CopySteps /\ (s = "stored" => slot \in Copies)
      BY <1>1 DEF CopySteps, KeyTypes
    <3>2. Bo!Go(c, s)
      BY <2>2
    <3> HIDE DEF s
    <3>3. Turn(c, s, copies[c].life, copies[c].answer)
      BY <1>1, <3>1, <3>2, Turns DEF Answers
    <3>4. lost = 0 => Active(c) /\ copies[c].answer = "none"
      BY <2>1 DEF KeyInv, RunningIsNow, Active
    <3> QED
      BY <1>1, <2>1, <3>1, <3>3, <3>4, QuietTurn, BookingAssumption
  <2>3. CASE Bo!Say(c, "error")
    BY <1>1, <2>1, <2>3, Turns, QuietTurn, BookingAssumption, ZenonT(60)
       DEF CopySteps, Answers
  <2> QED
    BY <1>4, <2>2, <2>3 DEF Bo!GetSlot
<1>5. ASSUME NEW c \in Copies, Bo!RequestInFlight(c) PROVE KeyInv'
  BY <1>1, <1>5, Turns, QuietTurn, BookingAssumption DEF Bo!RequestInFlight, CopySteps, Answers
<1>6. ASSUME NEW c \in Copies, Bo!AnswerStored(c) PROVE KeyInv'
  <2>1. copies[c].step = "stored" /\ UNCHANGED <<slot, life, trips, lost>>
    BY <1>6 DEF Bo!AnswerStored
  <2>2. slot \in Answers
    BY <1>1 DEF KeyTypes, Answers
  <2>3. lost = 0 => slot \in Copies /\ IsLooked(slot, copies[c].life)
    BY <2>1 DEF KeyInv, RunningIsNow, NamedIsLooked, Active
  <2>4. CASE Bo!Say(c, "error")
    BY <1>1, <2>1, <2>4, Turns, QuietTurn, BookingAssumption, ZenonT(60)
       DEF CopySteps, Answers
  <2>5. CASE Bo!Say(c, slot)
    BY <1>1, <2>1, <2>2, <2>3, <2>5, Turns, QuietTurn DEF CopySteps, Answers
  <2> QED
    BY <1>6, <2>4, <2>5 DEF Bo!AnswerStored
<1>7. ASSUME NEW c \in Copies, Bo!Look(c) PROVE KeyInv'
  <2>1. /\ copies[c].step = "owner" /\ UNCHANGED <<slot, life, trips, lost>>
        /\ Bo!Go(c, "bookable") \/ Bo!Go(c, "release")
        /\ Owning(c)
    BY <1>7 DEF Bo!Look, Owning
  <2>2. lost = 0 => Active(c) /\ copies[c].answer = "none"
    BY <2>1 DEF KeyInv, RunningIsNow, Active
  <2>3. /\ "bookable" \in CopySteps /\ "release" \in CopySteps /\ "none" \notin Copies
    BY BookingAssumption DEF CopySteps
  <2>4. ASSUME NEW s \in {"bookable", "release"}, Turn(c, s, copies[c].life, copies[c].answer)
        PROVE KeyInv'
    BY <1>1, <2>1, <2>2, <2>3, <2>4, QuietTurn
  <2> QED
    BY <1>1, <2>1, <2>3, <2>4, Turns DEF Answers
<1>8. ASSUME NEW c \in Copies, Bo!CreateTrip(c) \/ Bo!Search(c) PROVE KeyInv'
  <2>1. /\ copies[c].step \in {"bookable", "created"} /\ UNCHANGED <<slot, life>>
        /\ Owning(c)
    BY <1>8 DEF Bo!CreateTrip, Bo!Search, Owning
  <2>2. /\ {"created", "searching", "release"} \subseteq CopySteps /\ "none" \notin Copies
        /\ lost = 0 => Active(c) /\ copies[c].answer = "none"
    BY <2>1, BookingAssumption DEF KeyInv, RunningIsNow, Active, CopySteps
  <2>3. CASE \/ trips' = trips \cup {Bo!Trip(c, "CREATED")} /\ Bo!Go(c, "created") /\ Bo!Fine
             \/ trips' = Bo!Searching(c) /\ Bo!Go(c, "searching") /\ Bo!Fine
    BY <1>1, <2>1, <2>2, <2>3, Turns, TripStep DEF Answers
  <2>4. CASE UNCHANGED trips /\ Bo!Go(c, "release") /\ Bo!Fail
    <3>1. Turn(c, "release", copies[c].life, copies[c].answer) /\ UNCHANGED lost
      BY <1>1, <2>2, <2>4, Turns DEF Answers
    <3> QED
      BY <1>1, <2>1, <2>2, <2>4, <3>1, QuietTurn
  <2>5. CASE Bo!Go(c, "release") /\ Bo!Lose
    BY <1>1, <2>1, <2>2, <2>5, Turns, LostStep DEF Answers
  <2> QED
    BY <1>8, <2>3, <2>4, <2>5 DEF Bo!CreateTrip, Bo!Search
<1>9. ASSUME NEW c \in Copies, Bo!Complete(c) PROVE KeyInv'
  <2>1. /\ copies[c].step = "searching" /\ slot' \in {slot, c} /\ Bo!Say(c, c)
        /\ UNCHANGED <<life, trips, lost>>
    BY <1>9 DEF Bo!Complete
  <2> QED
    BY <1>1, <2>1, Turns, OwnerEnds DEF CopySteps, Answers
<1>10. ASSUME NEW c \in Copies, Bo!Release(c) PROVE KeyInv'
  <2>1. /\ copies[c].step = "release" /\ slot' \in {slot, "none"} /\ Bo!Say(c, "error")
        /\ UNCHANGED <<life, trips, lost>>
    BY <1>10 DEF Bo!Release
  <2> QED
    BY <1>1, <2>1, Turns, OwnerEnds DEF CopySteps, Answers
<1>11. ASSUME NEW c \in Copies, Bo!Die(c) PROVE KeyInv'
  <2>1. Bo!Go(c, "dead") /\ UNCHANGED <<slot, life, trips, lost>>
    BY <1>11 DEF Bo!Die
  <2>2. lost = 0 /\ copies[c].answer \in Copies => IsLooked(copies[c].answer, copies[c].life)
    BY DEF KeyInv, NamedIsLooked
  <2>3. Turn(c, "dead", copies[c].life, copies[c].answer) /\ "dead" \in CopySteps
    BY <1>1, <2>1, Turns DEF CopySteps, Answers
  <2> QED
    BY <1>1, <2>1, <2>2, <2>3, QuietTurn
<1> QED
  BY <1>2, <1>3, <1>4, <1>5, <1>6, <1>7, <1>8, <1>9, <1>10, <1>11, ExpireStep DEF Bo!BookingNext

\* No copy has come yet.
LEMMA BookingStarts == ASSUME Bo!BookingInit PROVE KeyInv
BY BookingAssumption
   DEF Bo!BookingInit, Bo!Idle, KeyInv, KeyTypes, OneOwner, RunningIsNow, OneLooked, NamedIsLooked,
       TripShape, Owning, Active, Looked

\* What the invariant is for.
LEMMA KeyIsUsedOnce == ASSUME KeyInv PROVE Bo!OneTripPerKey
<1> SUFFICES ASSUME lost = 0, NEW l \in 1 .. MaxLives
             PROVE  /\ \A c, d \in Bo!Looked(l) : c = d
                    /\ \A c \in Copies : copies[c].life = l /\ copies[c].answer \in Copies
                         => copies[c].answer \in Bo!Looked(l)
  BY DEF Bo!OneTripPerKey
<1>1. Bo!Looked(l) = {t.of : t \in {u \in Looked : u.life = l}}
  BY DEF Bo!Looked, Looked
<1>2. \A c, d \in Bo!Looked(l) : c = d
  BY <1>1 DEF KeyInv, OneLooked
<1>3. ASSUME NEW c \in Copies, copies[c].life = l, copies[c].answer \in Copies
      PROVE  copies[c].answer \in Bo!Looked(l)
  <2> DEFINE t == [of |-> copies[c].answer, life |-> l, status |-> "SEARCHING"]
  <2>1. t \in trips /\ t.of = copies[c].answer /\ t.life = l /\ t.status = "SEARCHING"
    BY <1>3 DEF KeyInv, NamedIsLooked, IsLooked
  <2> HIDE DEF t
  <2> QED
    BY <1>1, <2>1 DEF Looked
<1> QED
  BY <1>2, <1>3

\* And so it stays.
LEMMA BookingInvariant == MarketSpec => []KeyInv
<1>1. MarketInit => KeyInv
  BY BookingStarts DEF MarketInit
<1>2. KeyInv /\ [MarketNext]_marketVars => KeyInv'
  <2> SUFFICES ASSUME KeyInv, [MarketNext]_marketVars PROVE KeyInv'
    OBVIOUS
  <2>1. UNCHANGED booking \/ Bo!BookingNext
    BY DEF MarketNext, marketVars
  <2>2. CASE UNCHANGED booking
    BY <2>2 DEF booking, KeyInv, KeyTypes, OneOwner, RunningIsNow, OneLooked, NamedIsLooked,
       TripShape, Owning, Active, Looked, IsLooked
  <2> QED
    BY <2>1, <2>2, BookingStep
<1> QED
  BY <1>1, <1>2, PTL DEF MarketSpec

\* OneTripPerKey: the copies of one request book one trip, and all are told that one, if
\* nothing is lost (trip/service.go: Create, pkg/idem).
THEOREM KeyBooksOnce == MarketSpec => []OneTripPerKey
<1>1. KeyInv => OneTripPerKey
  BY KeyIsUsedOnce DEF OneTripPerKey
<1> QED
  BY <1>1, BookingInvariant, PTL

-------------------------------------------------------------------------------
(* Where offers are kept (Offers).                                           *)

Ids == SUBSET Of!Offer
OfferRecord == [status : {"PENDING", "CLOSED"}, expires : Nat, gone : Nat \cup {-1}]
Listing == [step : {"get"}, driver : Asked, time : Nat, left : Ids, stale : Ids, out : Ids, due : Ids]
Listed == [step : {"told"}, time : Nat, out : Ids, due : Ids]
Sweeping == [step : {"get", "set"}, left : Ids, seen : Of!Offer \cup {Of!None}, due : Ids,
             cut : BOOLEAN]
SweepOver == [step : {"told"}, due : Ids, cut : BOOLEAN]
Writing == [step : {"set"}, offer : Of!Offer, expires : Nat]

OfferTypes ==
  /\ kept \in {"atomic", "redis"}
  /\ at \in Nat \ {0} /\ batch \in Nat /\ storeFaults \in Nat
  /\ offers \in [Of!Offer -> OfferRecord \cup {Of!None}]
  /\ byDriver \in [Asked -> [ids : Ids, gone : Nat]]
  /\ byTrip \in [ids : Ids, gone : Nat]
  /\ list \in Listing \cup Listed \cup {Of!Rest}
  /\ sweep \in Sweeping \cup SweepOver \cup {Of!Rest}
  /\ sweep.step = "set" => sweep.seen \in Of!Offer
  /\ write \in Writing \cup {Of!Rest}

\* An offer of a round that was: it never becomes pending again.
Old(o) == o[2] <= batch

OldOnes ==
  /\ \A o \in Of!Offer : offers[o] # Of!None => Old(o)
  /\ \A d \in Asked : \A o \in byDriver[d].ids : Old(o)
  /\ \A d \in Asked : byDriver[d].gone <= at + OfferRecordTTL
  /\ byTrip.gone <= at + OfferRecordTTL
  /\ write.step = "set" => Old(write.offer)
  /\ list.step \in {"get", "told"} => \A o \in list.due : Old(o)
  /\ list.step = "get" => \A o \in list.left \cup list.stale : Old(o)
  /\ sweep.step \in {"get", "set", "told"} => \A o \in sweep.due : Old(o)

\* In Redis a pending offer is in both sets, and they live as long as it does.
Findable ==
  kept = "redis" => \A o \in Of!Offer : Of!Pending(o) =>
    /\ o \in byDriver[o[1]].ids /\ offers[o].gone <= byDriver[o[1]].gone
    /\ o \in byTrip.ids /\ offers[o].gone <= byTrip.gone
    /\ at < offers[o].gone

\* A list has, or still looks at, what is open since it began; it takes out only what
\* is gone.
ListSound ==
  /\ list.step = "get" =>
       /\ \A o \in list.due : Of!IsOpen(o, list.time) => o \in list.left \cup list.out
       /\ \A o \in list.stale : ~Of!Pending(o)
  /\ list.step = "told" => \A o \in list.due : Of!IsOpen(o, list.time) => o \in list.out

\* A withdrawal still looks at whatever is pending.
SweepSound ==
  /\ sweep.step \in {"get", "set"} => \A o \in sweep.due : Of!Pending(o) => o \in sweep.left
  /\ sweep.step = "told" /\ ~sweep.cut => \A o \in sweep.due : ~Of!Pending(o)

OfferInv == OfferTypes /\ OldOnes /\ (storeFaults = 0 => Findable /\ ListSound /\ SweepSound)

-------------------------------------------------------------------------------
\* A step may end the offers there are, and add offers of the next round.
Ages ==
  /\ batch' \in Nat /\ batch <= batch'
  /\ \A o \in Of!Offer : Old(o) /\ Of!Pending(o)' =>
       Of!Pending(o) /\ offers'[o].expires = offers[o].expires

\* Rounds are counted up.
LEMMA OldStaysOld == ASSUME OfferTypes, Ages, NEW o \in Of!Offer, Old(o) PROVE Old(o)'
<1>1. o[2] \in Nat
  BY OffersAssumption DEF Of!Offer
<1> QED
  BY <1>1 DEF Old, Ages, OfferTypes

\* Where each kind of call can be.
LEMMA CallKinds ==
  ASSUME OfferTypes
  PROVE  /\ list.step = "get" => list \in Listing
         /\ list.step = "told" => list \in Listed
         /\ sweep.step \in {"get", "set"} => sweep \in Sweeping
         /\ sweep.step = "told" => sweep \in SweepOver
         /\ write.step = "set" => write \in Writing
BY DEF OfferTypes, Listing, Listed, Sweeping, SweepOver, Writing, Of!Rest

\* What is under way stays sound while offers end.
LEMMA ListAges == ASSUME OfferTypes, OldOnes, ListSound, Ages, list' = list PROVE ListSound'
<1>1. ASSUME NEW o \in Of!Offer, Old(o), NEW t, Of!IsOpen(o, t)' PROVE Of!IsOpen(o, t)
  BY <1>1 DEF Of!IsOpen, Ages
<1>2. CASE list.step = "get"
  <2>1. /\ list.due \subseteq Of!Offer /\ list.stale \subseteq Of!Offer
        /\ \A o \in list.due \cup list.stale : Old(o)
    BY <1>2, CallKinds DEF Listing, Ids, OldOnes
  <2>2. \A o \in list.due : Of!IsOpen(o, list.time)' => o \in list.left \cup list.out
    <3> SUFFICES ASSUME NEW o \in list.due, Of!IsOpen(o, list.time)'
                 PROVE  o \in list.left \cup list.out
      OBVIOUS
    <3> PICK t : t = list.time
      OBVIOUS
    <3>1. Of!IsOpen(o, t)'
      BY DEF Of!IsOpen
    <3> QED
      BY <1>1, <1>2, <2>1, <3>1 DEF ListSound
  <2>3. \A o \in list.stale : ~Of!Pending(o)'
    BY <1>2, <2>1 DEF ListSound, Ages
  <2> QED
    BY <1>2, <2>2, <2>3 DEF ListSound
<1>3. CASE list.step = "told"
  <2>1. list.due \subseteq Of!Offer /\ \A o \in list.due : Old(o)
    BY <1>3, CallKinds DEF Listed, Ids, OldOnes
  <2>2. \A o \in list.due : Of!IsOpen(o, list.time)' => o \in list.out
    <3> SUFFICES ASSUME NEW o \in list.due, Of!IsOpen(o, list.time)' PROVE o \in list.out
      OBVIOUS
    <3> PICK t : t = list.time
      OBVIOUS
    <3>1. Of!IsOpen(o, t)'
      BY DEF Of!IsOpen
    <3> QED
      BY <1>1, <1>3, <2>1, <3>1 DEF ListSound
  <2> QED
    BY <1>3, <2>2 DEF ListSound
<1> QED
  BY <1>2, <1>3 DEF ListSound

\* A withdrawal stays sound while offers end.
LEMMA SweepAges ==
  ASSUME OfferTypes, OldOnes, SweepSound, Ages, sweep' = sweep
  PROVE  SweepSound'
<1>1. CASE sweep.step \in {"get", "set"}
  <2>1. sweep.due \subseteq Of!Offer /\ \A o \in sweep.due : Old(o)
    BY <1>1, CallKinds DEF Sweeping, Ids, OldOnes
  <2> QED
    BY <1>1, <2>1 DEF SweepSound, Ages
<1>2. CASE sweep.step = "told"
  <2>1. sweep.due \subseteq Of!Offer /\ \A o \in sweep.due : Old(o)
    BY <1>2, CallKinds DEF SweepOver, Ids, OldOnes
  <2> QED
    BY <1>2, <2>1 DEF SweepSound, Ages
<1> QED
  BY <1>1, <1>2 DEF SweepSound

\* So both stay sound.
LEMMA SoundAges ==
  ASSUME OfferTypes, OldOnes, ListSound, SweepSound, Ages, list' = list, sweep' = sweep
  PROVE  ListSound' /\ SweepSound'
BY ListAges, SweepAges

\* A round is saved: whole, with its sets.
LEMMA SaveStep ==
  ASSUME OfferInv, NEW chosen \in SUBSET Asked, Of!SaveOffers(chosen)
  PROVE  OfferInv'
<1> DEFINE new == {<<d, batch + 1>> : d \in chosen}
           fresh == [status |-> "PENDING", expires |-> at + OfferTTL, gone |-> at + OfferRecordTTL]
<1>1. /\ OfferTypes /\ OldOnes /\ at \in Nat \ {0} /\ batch \in Nat
      /\ batch' = batch + 1 /\ batch + 1 \in Batches
      /\ UNCHANGED <<kept, at, list, sweep, write, storeFaults>>
      /\ OfferTTL \in Nat /\ OfferRecordTTL \in Nat \ {0}
  BY OffersAssumption DEF OfferInv, Of!SaveOffers, OfferTypes
<1>2. /\ new \subseteq Of!Offer /\ fresh \in OfferRecord
      /\ fresh.status = "PENDING" /\ fresh.gone = at + OfferRecordTTL
      /\ \A d \in chosen : <<d, batch + 1>> \in new /\ <<d, batch + 1>> \in Of!Offer
      /\ \A o \in new : o = <<o[1], batch + 1>> /\ o[1] \in chosen /\ o[2] = batch + 1
  BY <1>1 DEF Of!Offer, OfferRecord
<1>3. offers' = [o \in Of!Offer |-> IF o \in new THEN fresh ELSE offers[o]]
  BY DEF Of!SaveOffers
<1>4. /\ byDriver' = [d \in Asked |-> IF d \in chosen
                       THEN [ids |-> byDriver[d].ids \cup {<<d, batch + 1>>}, gone |-> at + OfferRecordTTL]
                       ELSE byDriver[d]]
      /\ byTrip' = [ids |-> byTrip.ids \cup new, gone |-> at + OfferRecordTTL]
  BY DEF Of!SaveOffers, Of!Added
<1> HIDE DEF new, fresh
<1>5. OfferTypes'
  <2>1. offers' \in [Of!Offer -> OfferRecord \cup {Of!None}]
    BY <1>1, <1>2, <1>3 DEF OfferTypes
  <2>2. byDriver' \in [Asked -> [ids : Ids, gone : Nat]] /\ byTrip' \in [ids : Ids, gone : Nat]
    <3>1. at + OfferRecordTTL \in Nat
      BY <1>1
    <3> QED
      BY <1>1, <1>2, <1>4, <3>1 DEF OfferTypes, Ids
  <2>3. batch' \in Nat
    BY <1>1
  <2> QED
    BY <1>1, <2>1, <2>2, <2>3 DEF OfferTypes
<1>6. \A o \in Of!Offer : Old(o) => o \notin new
  BY <1>1, <1>2 DEF Old
<1>7. Ages
  BY <1>1, <1>3, <1>6 DEF Ages, Of!Pending, OfferTypes
<1>8. /\ \A o \in Of!Offer : Old(o) => Old(o)'
      /\ \A o \in new : Old(o)'
  <2>1. \A o \in Of!Offer : Old(o) => Old(o)'
    BY <1>1, <1>7, OldStaysOld
  <2>2. \A o \in new : Old(o)'
    BY <1>1, <1>2 DEF Old
  <2> QED
    BY <2>1, <2>2
<1>9. OldOnes'
  <2>1. \A o \in Of!Offer : offers'[o] # Of!None => Old(o)'
    BY <1>1, <1>3, <1>8 DEF OldOnes
  <2>2. /\ \A d \in Asked : \A o \in byDriver'[d].ids : Old(o)'
        /\ \A d \in Asked : byDriver'[d].gone <= at + OfferRecordTTL
        /\ byTrip'.gone <= at + OfferRecordTTL
    <3> SUFFICES ASSUME NEW d \in Asked
                 PROVE  /\ \A o \in byDriver'[d].ids : Old(o)'
                        /\ byDriver'[d].gone <= at + OfferRecordTTL
      BY <1>1, <1>4
    <3>1. /\ byDriver[d].ids \subseteq Of!Offer /\ \A o \in byDriver[d].ids : Old(o)
          /\ byDriver[d].gone <= at + OfferRecordTTL
      BY <1>1 DEF OfferTypes, Ids, OldOnes
    <3> QED
      BY <1>1, <1>2, <1>4, <1>8, <3>1
  <2>3. write.step = "set" => Old(write.offer)'
    <3>1. write.step = "set" => write.offer \in Of!Offer /\ Old(write.offer)
      BY <1>1, CallKinds DEF Writing, OldOnes
    <3> QED
      BY <1>1, <1>8, <3>1 DEF Old
  <2>4. list.step \in {"get", "told"} => \A o \in list.due : Old(o)'
    BY <1>1, <1>8, CallKinds DEF Listing, Listed, Ids, OldOnes
  <2>5. list.step = "get" => \A o \in list.left \cup list.stale : Old(o)'
    BY <1>1, <1>8, CallKinds DEF Listing, Ids, OldOnes
  <2>6. sweep.step \in {"get", "set", "told"} => \A o \in sweep.due : Old(o)'
    BY <1>1, <1>8, CallKinds DEF Sweeping, SweepOver, Ids, OldOnes
  <2> QED
    BY <1>1, <2>1, <2>2, <2>3, <2>4, <2>5, <2>6 DEF OldOnes
<1>10. ASSUME Findable PROVE Findable'
  <2> SUFFICES ASSUME kept = "redis", NEW o \in Of!Offer, Of!Pending(o)'
               PROVE  /\ o \in byDriver'[o[1]].ids /\ offers'[o].gone <= byDriver'[o[1]].gone
                      /\ o \in byTrip'.ids /\ offers'[o].gone <= byTrip'.gone
                      /\ at < offers'[o].gone
    BY <1>1 DEF Findable
  <2>0. o[1] \in Asked
    BY DEF Of!Offer
  <2>1. CASE o \in new
    <3>1. offers'[o].gone = at + OfferRecordTTL /\ o[1] \in chosen /\ o = <<o[1], batch + 1>>
      BY <1>2, <1>3, <2>1
    <3>2. byDriver'[o[1]] = [ids |-> byDriver[o[1]].ids \cup {o}, gone |-> at + OfferRecordTTL]
      BY <1>4, <2>0, <3>1
    <3> QED
      BY <1>1, <1>4, <2>1, <3>1, <3>2
  <2>2. CASE o \notin new
    <3>1. /\ offers'[o] = offers[o] /\ Of!Pending(o) /\ offers[o] \in OfferRecord \cup {Of!None}
          /\ byDriver[o[1]].gone \in Nat /\ byTrip.gone \in Nat
      BY <1>1, <1>3, <2>0, <2>2 DEF Of!Pending, OfferTypes
    <3>2. offers[o].gone \in Nat \cup {-1}
      BY <3>1 DEF OfferRecord, Of!None, Of!Pending
    <3>3. /\ o \in byDriver[o[1]].ids /\ offers[o].gone <= byDriver[o[1]].gone
          /\ o \in byTrip.ids /\ offers[o].gone <= byTrip.gone /\ at < offers[o].gone
      BY <2>2, <3>1, <1>10 DEF Findable
    <3>4. byDriver[o[1]].gone <= at + OfferRecordTTL /\ byTrip.gone <= at + OfferRecordTTL
      BY <1>1, <2>0 DEF OldOnes
    <3>5. o \in byDriver'[o[1]].ids /\ offers[o].gone <= byDriver'[o[1]].gone
      BY <1>1, <1>4, <2>0, <3>1, <3>2, <3>3, <3>4
    <3> QED
      BY <1>1, <1>4, <3>1, <3>2, <3>3, <3>4, <3>5
  <2> QED
    BY <2>1, <2>2
<1> QED
  BY <1>1, <1>5, <1>7, <1>9, <1>10, SoundAges DEF OfferInv

-------------------------------------------------------------------------------
\* A step that leaves the sets and the clock, and may only end offers.
Steady ==
  /\ UNCHANGED <<kept, at, batch, byDriver, byTrip>>
  /\ offers' \in [Of!Offer -> OfferRecord \cup {Of!None}]
  /\ \A o \in Of!Offer : Of!Pending(o)' => offers'[o] = offers[o]
  /\ \A o \in Of!Offer : offers'[o] # Of!None => Old(o)

SteadyOld ==
  /\ \A o \in Of!Offer : offers[o] # Of!None => Old(o)
  /\ \A d \in Asked : \A o \in byDriver[d].ids : Old(o)
  /\ \A d \in Asked : byDriver[d].gone <= at + OfferRecordTTL
  /\ byTrip.gone <= at + OfferRecordTTL

\* When offers end and the sets stay, whatever is pending is still found.
LEMMA SteadyStep ==
  ASSUME OfferTypes, OldOnes, Steady
  PROVE  /\ Ages
         /\ Findable => Findable'
         /\ SteadyOld'
         /\ \A o : Old(o)' <=> Old(o)
<1>1. Ages
  BY DEF Ages, Steady, Of!Pending, OfferTypes
<1>2. ASSUME Findable PROVE Findable'
  <2> SUFFICES ASSUME kept = "redis", NEW o \in Of!Offer, Of!Pending(o)'
               PROVE  /\ o \in byDriver[o[1]].ids /\ offers'[o].gone <= byDriver[o[1]].gone
                      /\ o \in byTrip.ids /\ offers'[o].gone <= byTrip.gone
                      /\ at < offers'[o].gone
    BY DEF Findable, Steady
  <2>1. offers'[o] = offers[o]
    BY DEF Steady
  <2> QED
    BY <1>2, <2>1 DEF Findable, Of!Pending
<1>3. \A o : Old(o)' <=> Old(o)
  BY DEF Steady, Old
<1>4. SteadyOld'
  <2>1. \A o \in Of!Offer : offers'[o] # Of!None => Old(o)'
    BY <1>3 DEF Steady
  <2>2. \A d \in Asked : \A o \in byDriver'[d].ids : Old(o)'
    BY <1>3 DEF Steady, OldOnes
  <2> QED
    BY <2>1, <2>2 DEF SteadyOld, Steady, OldOnes
<1> QED
  BY <1>1, <1>2, <1>3, <1>4

\* UpdateStatus reads the record, or is one statement.
LEMMA BeginUpdateStep ==
  ASSUME OfferInv, NEW o \in Of!Offer, Of!BeginUpdate(o)
  PROVE  OfferInv'
<1>1. /\ OfferTypes /\ OldOnes /\ Of!Pending(o) /\ offers[o] \in OfferRecord /\ offers[o] # Of!None
      /\ UNCHANGED <<kept, at, batch, byDriver, byTrip, list, sweep, storeFaults>>
  <2>1. offers[o] \in OfferRecord \cup {Of!None} /\ Of!Pending(o)
    BY DEF OfferInv, OfferTypes, Of!BeginUpdate
  <2>2. offers[o] # Of!None
    BY <2>1 DEF Of!Pending, Of!None
  <2> QED
    BY <2>1, <2>2 DEF OfferInv, Of!BeginUpdate
<1>2. Steady
  <2>1. CASE kept = "atomic"
    <3>1. offers' = [offers EXCEPT ![o] = [offers[o] EXCEPT !.status = "CLOSED"]]
      BY <2>1 DEF Of!BeginUpdate
    <3>2. [offers[o] EXCEPT !.status = "CLOSED"] \in OfferRecord
          /\ [offers[o] EXCEPT !.status = "CLOSED"].status = "CLOSED"
      BY <1>1 DEF OfferRecord
    <3>3. offers' \in [Of!Offer -> OfferRecord \cup {Of!None}]
      BY <1>1, <3>1, <3>2 DEF OfferTypes
    <3>4. offers'[o].status = "CLOSED" /\ \A p \in Of!Offer \ {o} : offers'[p] = offers[p]
      BY <1>1, <3>1, <3>2 DEF OfferTypes
    <3> QED
      BY <1>1, <3>3, <3>4 DEF Steady, Of!Pending, OldOnes
  <2>2. CASE kept # "atomic"
    BY <1>1, <2>2 DEF Steady, Of!BeginUpdate, OfferTypes, OldOnes
  <2> QED
    BY <2>1, <2>2
<1>3. /\ write' \in Writing \cup {Of!Rest}
      /\ write'.step = "set" => Old(write'.offer)
  <2>1. CASE kept = "atomic"
    BY <2>1 DEF Of!BeginUpdate, OfferInv, OfferTypes, OldOnes
  <2>2. CASE kept # "atomic"
    <3>1. write' = [step |-> "set", offer |-> o, expires |-> offers[o].expires]
      BY <2>2 DEF Of!BeginUpdate
    <3> QED
      BY <1>1, <3>1 DEF OfferRecord, Writing, OldOnes
  <2> QED
    BY <2>1, <2>2
<1>4. OfferTypes'
  BY <1>1, <1>2, <1>3 DEF Steady, OfferTypes
<1>5. OldOnes'
  BY <1>1, <1>2, <1>3, SteadyStep DEF OldOnes, SteadyOld
<1>6. storeFaults = 0 => (Findable /\ ListSound /\ SweepSound)'
  BY <1>1, <1>2, SteadyStep, SoundAges DEF OfferInv
<1> QED
  BY <1>1, <1>4, <1>5, <1>6 DEF OfferInv

\* UpdateStatus writes, perhaps over a record that has gone.
LEMMA EndUpdateStep == ASSUME OfferInv, Of!EndUpdate PROVE OfferInv'
<1> PICK o : o = write.offer
  OBVIOUS
<1>1. /\ OfferTypes /\ OldOnes
      /\ UNCHANGED <<kept, at, batch, byDriver, byTrip, list, sweep>> /\ write' = Of!Rest
      /\ write \in Writing /\ o \in Of!Offer /\ Old(o) /\ write.expires \in Nat
  BY CallKinds DEF OfferInv, Of!EndUpdate, OldOnes, Writing
<1>2. storeFaults' \in Nat /\ (storeFaults' = 0 => storeFaults = 0)
  BY <1>1 DEF Of!EndUpdate, Of!Fault, Of!NoFault, OfferTypes
<1>3. Steady
  <2>1. CASE UNCHANGED offers
    BY <1>1, <2>1 DEF Steady, OfferTypes, OldOnes
  <2>2. CASE offers' = [offers EXCEPT ![write.offer] = Of!Stored(write.offer, write.expires)]
    <3>1. Of!Stored(o, write.expires) \in OfferRecord /\ Of!Stored(o, write.expires).status = "CLOSED"
      <4>1. offers[o] \in OfferRecord \cup {Of!None}
        BY <1>1 DEF OfferTypes
      <4> QED
        BY <1>1, <4>1 DEF Of!Stored, OfferRecord, Of!Forever
    <3>2. /\ offers' \in [Of!Offer -> OfferRecord \cup {Of!None}]
          /\ offers'[o].status = "CLOSED" /\ \A p \in Of!Offer \ {o} : offers'[p] = offers[p]
      BY <1>1, <2>2, <3>1 DEF OfferTypes
    <3> QED
      BY <1>1, <3>2 DEF Steady, Of!Pending, OldOnes
  <2> QED
    BY <2>1, <2>2 DEF Of!EndUpdate
<1>4. OfferTypes'
  BY <1>1, <1>2, <1>3 DEF Steady, OfferTypes
<1>5. OldOnes'
  <2>1. write'.step # "set"
    BY <1>1 DEF Of!Rest
  <2> QED
    BY <1>1, <1>3, <2>1, SteadyStep DEF OldOnes, SteadyOld
<1>6. storeFaults' = 0 => (Findable /\ ListSound /\ SweepSound)'
  BY <1>1, <1>2, <1>3, SteadyStep, SoundAges DEF OfferInv
<1> QED
  BY <1>4, <1>5, <1>6 DEF OfferInv

-------------------------------------------------------------------------------
\* What a step of a list or of a withdrawal leaves is kept.
LEMMA StillSteady ==
  ASSUME OfferTypes, OldOnes, UNCHANGED <<kept, at, batch, offers, byDriver, byTrip>>
  PROVE  Steady
BY DEF Steady, OfferTypes, OldOnes

\* A list has before it what the driver's set has.
LEMMA BeginListStep == ASSUME OfferInv, NEW d \in Asked, Of!BeginList(d) PROVE OfferInv'
<1> DEFINE owed == {o \in Of!Offer : o[1] = d /\ Of!IsOpen(o, at)}
<1>1. /\ OfferTypes /\ OldOnes
      /\ UNCHANGED <<kept, at, batch, offers, byDriver, byTrip, sweep, write, storeFaults>>
      /\ Steady /\ byDriver[d].ids \subseteq Of!Offer /\ at \in Nat
  <2>1. OfferTypes /\ OldOnes
    BY DEF OfferInv
  <2>2. UNCHANGED <<kept, at, batch, offers, byDriver, byTrip, sweep, write, storeFaults>>
    BY DEF Of!BeginList
  <2> QED
    BY <2>1, <2>2, StillSteady DEF OfferTypes, Ids
<1>2. /\ owed \subseteq Of!Offer /\ \A o \in owed : Old(o) /\ Of!Pending(o) /\ o[1] = d
      /\ \A o \in byDriver[d].ids : Old(o)
  <2>1. \A o \in Of!Offer : Of!Pending(o) => Old(o)
    BY <1>1 DEF Of!Pending, Of!None, OldOnes
  <2> QED
    BY <1>1, <2>1 DEF Of!IsOpen, OldOnes
<1>3. /\ kept = "atomic" => list' = [step |-> "told", time |-> at, out |-> owed, due |-> owed]
      /\ kept # "atomic" =>
           list' = [step |-> "get", driver |-> d, time |-> at, left |-> byDriver[d].ids,
                    stale |-> {}, out |-> {}, due |-> owed]
  BY DEF Of!BeginList
<1>4. storeFaults = 0 /\ kept = "redis" => owed \subseteq byDriver[d].ids
  BY <1>2 DEF OfferInv, Findable
<1> HIDE DEF owed
<1>5. /\ list' \in Listing \cup Listed
      /\ \A o \in list'.due : Old(o)
      /\ list'.step = "get" => \A o \in list'.left \cup list'.stale : Old(o)
  <2>1. CASE kept = "atomic"
    BY <1>1, <1>2, <1>3, <2>1 DEF Listed, Ids
  <2>2. CASE kept # "atomic"
    BY <1>1, <1>2, <1>3, <2>2 DEF Listing, Ids
  <2> QED
    BY <2>1, <2>2
<1>6. OfferTypes'
  BY <1>1, <1>5 DEF OfferTypes
<1>7. OldOnes'
  BY <1>1, <1>5, SteadyStep DEF OldOnes, SteadyOld
<1>8. ASSUME storeFaults = 0, kept \in {"atomic", "redis"} PROVE (Findable /\ ListSound /\ SweepSound)'
  <2>1. ListSound'
    <3>1. CASE kept = "atomic"
      BY <1>3, <3>1 DEF ListSound
    <3>2. CASE kept = "redis"
      BY <1>3, <1>4, <1>8, <3>2 DEF ListSound
    <3> QED
      BY <1>8, <3>1, <3>2
  <2>2. SweepSound'
    BY <1>1, <1>8, SteadyStep, SweepAges DEF OfferInv
  <2> QED
    BY <1>1, <1>8, <2>1, <2>2, SteadyStep DEF OfferInv
<1> QED
  BY <1>1, <1>6, <1>7, <1>8 DEF OfferInv, OfferTypes

\* An offer that is still open goes on the list; only one that is gone is to be taken out.
LEMMA ListOneStep == ASSUME OfferInv, NEW o \in Of!Offer, Of!ListOne(o) PROVE OfferInv'
<1>1. /\ OfferTypes /\ OldOnes
      /\ UNCHANGED <<kept, at, batch, offers, byDriver, byTrip, sweep, write>>
      /\ Steady /\ list \in Listing /\ o \in list.left
  <2>1. OfferTypes /\ OldOnes
    BY DEF OfferInv
  <2>2. UNCHANGED <<kept, at, batch, offers, byDriver, byTrip, sweep, write>>
    BY DEF Of!ListOne
  <2> QED
    BY <2>1, <2>2, StillSteady, CallKinds DEF Of!ListOne
<1>2. PICK stale \in Ids, out \in Ids :
        /\ list' = [list EXCEPT !.left = @ \ {o}, !.stale = stale, !.out = out]
        /\ stale \subseteq list.stale \cup {o} /\ list.out \subseteq out
        /\ storeFaults' = 0 => /\ storeFaults = 0
                               /\ o \in stale \ list.stale => offers[o] = Of!None
                               /\ Of!IsOpen(o, list.time) => o \in out
        /\ storeFaults' \in Nat
  <2>0. list.stale \in Ids /\ list.out \in Ids /\ storeFaults \in Nat
    BY <1>1 DEF Listing, OfferTypes
  <2>1. CASE /\ UNCHANGED storeFaults
             /\ list' = [list EXCEPT !.left = @ \ {o},
                  !.stale = IF offers[o] = Of!None THEN @ \cup {o} ELSE @,
                  !.out = IF Of!IsOpen(o, list.time) THEN @ \cup {o} ELSE @]
    <3> DEFINE s == IF offers[o] = Of!None THEN list.stale \cup {o} ELSE list.stale
               u == IF Of!IsOpen(o, list.time) THEN list.out \cup {o} ELSE list.out
    <3>1. s \in Ids /\ u \in Ids
      BY <2>0 DEF Ids
    <3>2. list' = [list EXCEPT !.left = @ \ {o}, !.stale = s, !.out = u]
      BY <2>1
    <3>3. /\ s \subseteq list.stale \cup {o} /\ list.out \subseteq u
          /\ o \in s \ list.stale => offers[o] = Of!None
          /\ Of!IsOpen(o, list.time) => o \in u
      OBVIOUS
    <3> HIDE DEF s, u
    <3> QED
      BY <2>0, <2>1, <3>1, <3>2, <3>3
  <2>2. CASE /\ storeFaults' = storeFaults + 1
             /\ list' = [list EXCEPT !.left = @ \ {o}, !.stale = @ \cup {o}]
    <3>1. list.stale \cup {o} \in Ids
      BY <2>0 DEF Ids
    <3>2. list' = [list EXCEPT !.left = @ \ {o}, !.stale = list.stale \cup {o}, !.out = list.out]
      BY <1>1, <2>2 DEF Listing
    <3>3. storeFaults' \in Nat /\ storeFaults' # 0
      BY <2>0, <2>2
    <3> QED
      BY <2>0, <3>1, <3>2, <3>3
  <2> QED
    BY <2>1, <2>2 DEF Of!ListOne, Of!Fault, Of!NoFault
<1>3. /\ list' \in Listing /\ list'.due = list.due /\ list'.left = list.left \ {o}
      /\ list'.stale = stale /\ list'.out = out /\ list'.time = list.time
  BY <1>1, <1>2 DEF Listing, Ids
<1>4. list.step = "get" /\ list'.step = "get"
  BY <1>1, <1>3 DEF Listing
<1>5. OfferTypes'
  BY <1>1, <1>2, <1>3 DEF OfferTypes
<1>6. OldOnes'
  <2>1. /\ \A p \in list'.due : Old(p)
        /\ \A p \in list'.left \cup list'.stale : Old(p)
    BY <1>1, <1>2, <1>3, <1>4 DEF OldOnes
  <2> QED
    BY <1>1, <1>4, <2>1, SteadyStep DEF OldOnes, SteadyOld
<1>7. ASSUME storeFaults' = 0 PROVE (Findable /\ ListSound /\ SweepSound)'
  <2>0. storeFaults = 0 /\ Findable /\ ListSound /\ SweepSound
    BY <1>2, <1>7 DEF OfferInv
  <2>1. ListSound'
    <3> PICK t : t = list.time
      OBVIOUS
    <3>1. \A p : Of!IsOpen(p, t)' <=> Of!IsOpen(p, t)
      BY <1>1 DEF Of!IsOpen, Of!Pending
    <3>2. \A p \in list'.due : Of!IsOpen(p, t)' => p \in list'.left \cup list'.out
      BY <1>2, <1>3, <1>4, <1>7, <2>0, <3>1 DEF ListSound
    <3>3. \A p \in list'.stale : ~Of!Pending(p)'
      BY <1>1, <1>2, <1>3, <1>4, <1>7, <2>0 DEF ListSound, Of!Pending, Of!None
    <3> QED
      BY <1>3, <1>4, <3>2, <3>3 DEF ListSound, Of!IsOpen
  <2> QED
    BY <1>1, <2>0, <2>1, SteadyStep, SweepAges
<1> QED
  BY <1>5, <1>6, <1>7 DEF OfferInv

\* What is gone is taken out of the driver's set; nothing pending is.
LEMMA EndListStep == ASSUME OfferInv, Of!EndList PROVE OfferInv'
<1> PICK d : d = list.driver
  OBVIOUS
<1>1. /\ OfferTypes /\ OldOnes
      /\ UNCHANGED <<kept, at, batch, offers, byTrip, sweep, write, storeFaults>>
      /\ list \in Listing /\ list.left = {} /\ d \in Asked
      /\ list' = [step |-> "told", time |-> list.time, out |-> list.out, due |-> list.due]
  BY CallKinds DEF OfferInv, Of!EndList, Listing
<1>2. /\ byDriver' \in [Asked -> [ids : Ids, gone : Nat]]
      /\ \A c \in Asked : byDriver'[c].ids \subseteq byDriver[c].ids /\ byDriver'[c].gone = byDriver[c].gone
      /\ \A c \in Asked : \A o \in byDriver[c].ids : o \in byDriver'[c].ids \/ o \in list.stale
  <2>1. byDriver' = [byDriver EXCEPT ![d] = [byDriver[d] EXCEPT !.ids = byDriver[d].ids \ list.stale]]
    BY DEF Of!EndList
  <2>2. byDriver \in [Asked -> [ids : Ids, gone : Nat]]
    BY <1>1 DEF OfferTypes
  <2> DEFINE r == [byDriver[d] EXCEPT !.ids = byDriver[d].ids \ list.stale]
  <2>3. byDriver[d] \in [ids : Ids, gone : Nat]
    BY <1>1, <2>2
  <2>4. r \in [ids : Ids, gone : Nat] /\ r.gone = byDriver[d].gone /\ r.ids = byDriver[d].ids \ list.stale
    BY <2>3 DEF Ids
  <2> HIDE DEF r
  <2>5. byDriver' = [byDriver EXCEPT ![d] = r]
    BY <2>1 DEF r
  <2> QED
    BY <1>1, <2>2, <2>4, <2>5
<1>3. list' \in Listed /\ list'.step = "told" /\ list.step = "get"
  BY <1>1 DEF Listing, Listed
<1>4. OfferTypes'
  BY <1>1, <1>2, <1>3 DEF OfferTypes
<1>5. OldOnes'
  <2>1. \A o : Old(o)' <=> Old(o)
    BY <1>1 DEF Old
  <2>2. \A c \in Asked : \A o \in byDriver'[c].ids : Old(o)
    BY <1>1, <1>2 DEF OldOnes
  <2>3. \A c \in Asked : byDriver'[c].gone <= at + OfferRecordTTL
    BY <1>1, <1>2 DEF OldOnes
  <2>4. \A o \in list'.due : Old(o)
    BY <1>1, <1>3 DEF OldOnes
  <2> QED
    BY <1>1, <1>3, <2>1, <2>2, <2>3, <2>4 DEF OldOnes
<1>6. ASSUME storeFaults = 0 PROVE (Findable /\ ListSound /\ SweepSound)'
  <2>0. Findable /\ ListSound /\ SweepSound
    BY <1>6 DEF OfferInv
  <2>1. Findable'
    <3> SUFFICES ASSUME kept = "redis", NEW o \in Of!Offer, Of!Pending(o)
                 PROVE  /\ o \in byDriver'[o[1]].ids /\ offers[o].gone <= byDriver'[o[1]].gone
                        /\ o \in byTrip.ids /\ offers[o].gone <= byTrip.gone
                        /\ at < offers[o].gone
      BY <1>1 DEF Findable, Of!Pending
    <3>1. o[1] \in Asked /\ o \notin list.stale
      BY <1>3, <2>0 DEF Of!Offer, ListSound
    <3> QED
      BY <1>2, <2>0, <3>1 DEF Findable
  <2>2. ListSound'
    <3>1. \A o \in list.due : Of!IsOpen(o, list.time) => o \in list.out
      BY <1>1, <1>3, <2>0 DEF ListSound
    <3> QED
      BY <1>1, <1>3, <3>1 DEF ListSound, Of!IsOpen, Of!Pending
  <2>3. SweepSound'
    BY <1>1, <2>0 DEF SweepSound, Of!Pending
  <2> QED
    BY <2>1, <2>2, <2>3
<1> QED
  BY <1>1, <1>4, <1>5, <1>6 DEF OfferInv

\* The list has been shown.
LEMMA ListReadStep == ASSUME OfferInv, Of!ListRead PROVE OfferInv'
<1>1. /\ OfferTypes /\ OldOnes /\ list' = Of!Rest
      /\ UNCHANGED <<kept, at, batch, offers, byDriver, byTrip, sweep, write, storeFaults>>
  BY DEF OfferInv, Of!ListRead
<1>2. Steady
  BY <1>1, StillSteady
<1>3. list'.step = "rest"
  BY <1>1 DEF Of!Rest
<1>4. OfferTypes'
  BY <1>1 DEF OfferTypes
<1>5. OldOnes'
  BY <1>1, <1>2, <1>3, SteadyStep DEF OldOnes, SteadyOld
<1>6. storeFaults = 0 => (Findable /\ ListSound /\ SweepSound)'
  <2>1. ListSound'
    BY <1>3 DEF ListSound
  <2> QED
    BY <1>1, <1>2, <2>1, SteadyStep, SweepAges DEF OfferInv
<1> QED
  BY <1>1, <1>4, <1>5, <1>6 DEF OfferInv

-------------------------------------------------------------------------------
\* Nothing is listed while a withdrawal is under way that began without a list, so a
\* step of it has only itself and the offers it ends to show.
LEMMA SweepLeaves ==
  ASSUME OfferInv, Steady, UNCHANGED <<list, write>>,
         sweep' \in Sweeping \cup SweepOver \cup {Of!Rest},
         sweep'.step = "set" => sweep'.seen \in Of!Offer,
         sweep'.step \in {"get", "set", "told"} => \A o \in sweep'.due : Old(o),
         storeFaults' \in Nat,
         storeFaults' = 0 => storeFaults = 0 /\ SweepSound'
  PROVE  OfferInv'
<1>1. OfferTypes /\ OldOnes
  BY DEF OfferInv
<1>2. OfferTypes'
  BY <1>1 DEF OfferTypes, Steady
<1>3. OldOnes'
  BY <1>1, SteadyStep DEF OldOnes, SteadyOld
<1>4. storeFaults' = 0 => (Findable /\ ListSound)'
  BY <1>1, SteadyStep, ListAges DEF OfferInv
<1> QED
  BY <1>2, <1>3, <1>4 DEF OfferInv

\* A withdrawal has before it what the trip's set has, or is one statement.
LEMMA BeginSweepStep ==
  ASSUME OfferInv, NEW except \in Of!Offer, Of!BeginSweep(except)
  PROVE  OfferInv'
<1> DEFINE owed == {o \in Of!Offer \ {except} : Of!Pending(o)}
<1>1. /\ OfferTypes /\ OldOnes /\ storeFaults \in Nat /\ kept \in {"atomic", "redis"}
      /\ UNCHANGED <<kept, at, batch, byDriver, byTrip, list, write, storeFaults>>
  BY DEF OfferInv, OfferTypes, Of!BeginSweep
<1>2. /\ owed \subseteq Of!Offer /\ owed \in Ids
      /\ \A o \in owed : offers[o] # Of!None /\ offers[o] \in OfferRecord /\ Old(o)
      /\ \A o \in owed : Of!Pending(o) /\ o # except
  <2>1. \A o \in owed : offers[o] # Of!None
    BY DEF Of!Pending, Of!None
  <2> QED
    BY <1>1, <2>1 DEF Ids, OfferTypes, OldOnes
<1>3. /\ kept = "atomic" =>
           /\ offers' = [o \in Of!Offer |->
                IF o \in owed THEN [offers[o] EXCEPT !.status = "CLOSED"] ELSE offers[o]]
           /\ sweep' = [step |-> "told", due |-> owed, cut |-> FALSE]
      /\ kept # "atomic" =>
           /\ UNCHANGED offers
           /\ sweep' = [step |-> "get", left |-> byTrip.ids \ {except}, seen |-> Of!None,
                        due |-> owed, cut |-> FALSE]
  BY DEF Of!BeginSweep
<1> HIDE DEF owed
<1>4. CASE kept = "atomic"
  <2>1. \A o \in owed : /\ [offers[o] EXCEPT !.status = "CLOSED"] \in OfferRecord
                       /\ [offers[o] EXCEPT !.status = "CLOSED"].status = "CLOSED"
    BY <1>2 DEF OfferRecord
  <2>2. offers' \in [Of!Offer -> OfferRecord \cup {Of!None}]
    BY <1>1, <1>3, <1>4, <2>1 DEF OfferTypes
  <2>3. /\ \A o \in owed : offers'[o].status = "CLOSED"
        /\ \A o \in Of!Offer \ owed : offers'[o] = offers[o]
    BY <1>2, <1>3, <1>4, <2>1
  <2>4. Steady
    BY <1>1, <1>2, <2>2, <2>3 DEF Steady, Of!Pending, OldOnes
  <2>5. /\ sweep' \in SweepOver /\ sweep'.step = "told" /\ \A o \in sweep'.due : Old(o)
    <3>1. sweep' = [step |-> "told", due |-> owed, cut |-> FALSE]
      BY <1>3, <1>4
    <3>2. sweep' \in SweepOver
      BY <1>2, <3>1 DEF SweepOver
    <3> QED
      BY <1>2, <3>1, <3>2
  <2>6. SweepSound'
    BY <1>3, <1>4, <2>3 DEF SweepSound, Of!Pending
  <2> QED
    BY <1>1, <2>4, <2>5, <2>6, SweepLeaves
<1>5. CASE kept = "redis"
  <2>1. Steady
    BY <1>1, <1>3, <1>5, StillSteady
  <2>2. byTrip.ids \ {except} \in Ids
    BY <1>1 DEF OfferTypes, Ids
  <2>3. /\ sweep' \in Sweeping /\ sweep'.step = "get" /\ \A o \in sweep'.due : Old(o)
    <3>1. sweep' = [step |-> "get", left |-> byTrip.ids \ {except}, seen |-> Of!None,
                    due |-> owed, cut |-> FALSE]
      BY <1>3, <1>5
    <3>2. sweep' \in Sweeping
      BY <1>2, <2>2, <3>1 DEF Sweeping
    <3> QED
      BY <1>2, <3>1, <3>2
  <2>4. storeFaults = 0 => SweepSound'
    BY <1>2, <1>3, <1>5 DEF SweepSound, OfferInv, Findable
  <2> QED
    BY <1>1, <2>1, <2>3, <2>4, SweepLeaves
<1> QED
  BY <1>1, <1>4, <1>5

\* An offer that is not pending needs no withdrawal.
LEMMA SweepOneStep == ASSUME OfferInv, NEW o \in Of!Offer, Of!SweepOne(o) PROVE OfferInv'
<1>1. /\ OfferTypes /\ OldOnes /\ storeFaults \in Nat
      /\ UNCHANGED <<kept, at, batch, offers, byDriver, byTrip, list, write>>
      /\ sweep \in Sweeping /\ o \in sweep.left /\ sweep.step = "get"
      /\ \A p \in sweep.due : Old(p)
  BY CallKinds DEF OfferInv, OfferTypes, Of!SweepOne, OldOnes
<1>2. Steady
  BY <1>1, StillSteady
<1>3. CASE UNCHANGED storeFaults /\ Of!Pending(o) /\ sweep' = [sweep EXCEPT !.step = "set", !.seen = o]
  <2>1. /\ sweep' \in Sweeping /\ sweep'.step = "set" /\ sweep'.seen = o
        /\ sweep'.due = sweep.due /\ sweep'.left = sweep.left
    BY <1>1, <1>3 DEF Sweeping
  <2>2. storeFaults = 0 => SweepSound'
    BY <1>1, <2>1 DEF SweepSound, OfferInv, Of!Pending
  <2> QED
    BY <1>1, <1>2, <1>3, <2>1, <2>2, SweepLeaves
<1>4. ASSUME sweep' = [sweep EXCEPT !.left = @ \ {o}], storeFaults' \in Nat,
             storeFaults' = 0 => storeFaults = 0 /\ ~Of!Pending(o)
      PROVE  OfferInv'
  <2>1. /\ sweep' \in Sweeping /\ sweep'.step = "get"
        /\ sweep'.due = sweep.due /\ sweep'.left = sweep.left \ {o}
    BY <1>1, <1>4 DEF Sweeping, Ids
  <2>2. storeFaults' = 0 => SweepSound'
    BY <1>1, <1>4, <2>1 DEF SweepSound, OfferInv, Of!Pending
  <2> QED
    BY <1>1, <1>2, <1>4, <2>1, <2>2, SweepLeaves
<1>5. \/ UNCHANGED storeFaults /\ Of!Pending(o) /\ sweep' = [sweep EXCEPT !.step = "set", !.seen = o]
      \/ UNCHANGED storeFaults /\ ~Of!Pending(o) /\ sweep' = [sweep EXCEPT !.left = @ \ {o}]
      \/ storeFaults' = storeFaults + 1 /\ sweep' = [sweep EXCEPT !.left = @ \ {o}]
  BY DEF Of!SweepOne, Of!Fault, Of!NoFault
<1> QED
  BY <1>1, <1>3, <1>4, <1>5

\* An offer is withdrawn, or the sweep ends with an error.
LEMMA SweepWriteStep == ASSUME OfferInv, Of!SweepWrite PROVE OfferInv'
<1> PICK o : o = sweep.seen
  OBVIOUS
<1>1. /\ OfferTypes /\ OldOnes /\ storeFaults \in Nat
      /\ UNCHANGED <<kept, at, batch, byDriver, byTrip, list, write>>
      /\ sweep \in Sweeping /\ o \in Of!Offer /\ sweep.step = "set"
      /\ \A p \in sweep.due : Old(p)
  BY CallKinds DEF OfferInv, OfferTypes, Of!SweepWrite, OldOnes
<1>2. CASE /\ offers[o] # Of!None /\ UNCHANGED storeFaults
           /\ offers' = [offers EXCEPT ![o].status = "CLOSED"]
           /\ sweep' = [sweep EXCEPT !.step = "get", !.left = @ \ {o}, !.seen = Of!None]
  <2>1. /\ [offers[o] EXCEPT !.status = "CLOSED"] \in OfferRecord
        /\ [offers[o] EXCEPT !.status = "CLOSED"].status = "CLOSED"
    BY <1>1, <1>2 DEF OfferTypes, OfferRecord
  <2>2. /\ offers' \in [Of!Offer -> OfferRecord \cup {Of!None}]
        /\ offers'[o].status = "CLOSED" /\ \A p \in Of!Offer \ {o} : offers'[p] = offers[p]
    BY <1>1, <1>2, <2>1 DEF OfferTypes
  <2>3. Steady
    BY <1>1, <1>2, <2>2 DEF Steady, Of!Pending, OldOnes
  <2>4. /\ sweep' \in Sweeping /\ sweep'.step = "get"
        /\ sweep'.due = sweep.due /\ sweep'.left = sweep.left \ {o}
    BY <1>1, <1>2 DEF Sweeping, Ids
  <2>5. storeFaults = 0 => SweepSound'
    <3>1. sweep.due \subseteq Of!Offer
      BY <1>1 DEF Sweeping, Ids
    <3> QED
      BY <1>1, <2>2, <2>4, <3>1 DEF SweepSound, OfferInv, Of!Pending
  <2> QED
    BY <1>1, <1>2, <2>3, <2>4, <2>5, SweepLeaves
<1>3. ASSUME UNCHANGED offers, storeFaults' \in {storeFaults, storeFaults + 1},
             sweep' = [step |-> "told", due |-> sweep.due, cut |-> TRUE]
      PROVE  OfferInv'
  <2>1. Steady
    BY <1>1, <1>3, StillSteady
  <2>2. sweep' \in SweepOver /\ sweep'.step = "told" /\ sweep'.due = sweep.due /\ sweep'.cut
    BY <1>1, <1>3 DEF Sweeping, SweepOver
  <2>3. SweepSound'
    BY <2>2 DEF SweepSound
  <2> QED
    BY <1>1, <1>3, <2>1, <2>2, <2>3, SweepLeaves
<1> QED
  BY <1>2, <1>3 DEF Of!SweepWrite, Of!Fault, Of!NoFault

\* Nothing is left to look at: nothing is pending.
LEMMA EndSweepStep == ASSUME OfferInv, Of!EndSweep \/ Of!Swept PROVE OfferInv'
<1>1. /\ OfferTypes /\ OldOnes /\ storeFaults \in Nat
      /\ UNCHANGED <<kept, at, batch, offers, byDriver, byTrip, list, write, storeFaults>>
  BY DEF OfferInv, OfferTypes, Of!EndSweep, Of!Swept
<1>2. Steady
  BY <1>1, StillSteady
<1>3. CASE Of!EndSweep
  <2>1. /\ sweep \in Sweeping /\ sweep.left = {} /\ sweep.step = "get"
        /\ \A o \in sweep.due : Old(o)
        /\ sweep' = [step |-> "told", due |-> sweep.due, cut |-> FALSE]
    BY <1>1, <1>3, CallKinds DEF Of!EndSweep, OldOnes
  <2>2. sweep' \in SweepOver /\ sweep'.step = "told" /\ sweep'.due = sweep.due
    BY <2>1 DEF Sweeping, SweepOver
  <2>3. storeFaults = 0 => SweepSound'
    BY <1>1, <2>1, <2>2 DEF SweepSound, OfferInv, Of!Pending
  <2> QED
    BY <1>1, <1>2, <2>1, <2>2, <2>3, SweepLeaves
<1>4. CASE Of!Swept
  <2>1. sweep' = Of!Rest /\ sweep'.step = "rest"
    BY <1>4 DEF Of!Swept, Of!Rest
  <2>2. SweepSound'
    BY <2>1 DEF SweepSound
  <2> QED
    BY <1>1, <1>2, <2>1, <2>2, SweepLeaves
<1> QED
  BY <1>3, <1>4

-------------------------------------------------------------------------------
\* A set that runs out has no pending offer left, for its life is not the shorter.
LEMMA LaterStep == ASSUME OfferInv, Of!Later PROVE OfferInv'
<1>1. /\ OfferTypes /\ OldOnes /\ at \in Nat \ {0} /\ at' = at + 1 /\ at + 1 \in Nat
      /\ OfferRecordTTL \in Nat
      /\ UNCHANGED <<kept, batch, list, sweep, write, storeFaults>>
  BY OffersAssumption DEF OfferInv, OfferTypes, Of!Later
<1>2. /\ offers' \in [Of!Offer -> OfferRecord \cup {Of!None}]
      /\ \A o \in Of!Offer : \/ offers'[o] = offers[o] /\ (kept = "redis" /\ offers[o] # Of!None =>
                                                          offers[o].gone # at + 1)
                             \/ offers'[o] = Of!None
  <2>1. CASE kept = "redis"
    BY <1>1, <2>1 DEF Of!Later, OfferTypes
  <2>2. CASE kept # "redis"
    BY <1>1, <2>2 DEF Of!Later, OfferTypes
  <2> QED
    BY <2>1, <2>2
<1>3. /\ byDriver' \in [Asked -> [ids : Ids, gone : Nat]]
      /\ \A d \in Asked : /\ byDriver'[d].ids \subseteq byDriver[d].ids
                          /\ byDriver'[d].gone <= byDriver[d].gone
                          /\ byDriver[d].gone # at + 1 => byDriver'[d] = byDriver[d]
  <2>1. byDriver \in [Asked -> [ids : Ids, gone : Nat]] /\ Of!NoSet \in [ids : Ids, gone : Nat]
    BY <1>1 DEF OfferTypes, Of!NoSet, Ids
  <2>2. \A d \in Asked : Of!NoSet.ids \subseteq byDriver[d].ids /\ Of!NoSet.gone <= byDriver[d].gone
    BY <2>1 DEF Of!NoSet
  <2>3. \/ UNCHANGED byDriver
        \/ byDriver' = [d \in Asked |-> IF byDriver[d].gone = at + 1 THEN Of!NoSet ELSE byDriver[d]]
    BY DEF Of!Later, Of!Alive
  <2> QED
    BY <2>1, <2>2, <2>3
<1>4. /\ byTrip' \in [ids : Ids, gone : Nat] /\ byTrip'.ids \subseteq byTrip.ids
      /\ byTrip'.gone <= byTrip.gone
      /\ byTrip.gone # at + 1 => byTrip' = byTrip
  <2>1. byTrip \in [ids : Ids, gone : Nat] /\ Of!NoSet \in [ids : Ids, gone : Nat]
    BY <1>1 DEF OfferTypes, Of!NoSet, Ids
  <2>2. Of!NoSet.ids \subseteq byTrip.ids /\ Of!NoSet.gone <= byTrip.gone
    BY <2>1 DEF Of!NoSet
  <2>3. UNCHANGED byTrip \/ byTrip' = IF byTrip.gone = at + 1 THEN Of!NoSet ELSE byTrip
    BY DEF Of!Later, Of!Alive
  <2> QED
    BY <2>1, <2>2, <2>3
<1>5. \A o \in Of!Offer : Of!Pending(o)' => offers'[o] = offers[o] /\ Of!Pending(o)
  BY <1>2 DEF Of!Pending, Of!None
<1>6. Ages
  BY <1>1, <1>5 DEF Ages, OfferTypes
<1>7. OfferTypes'
  BY <1>1, <1>2, <1>3, <1>4 DEF OfferTypes
<1>8. OldOnes'
  <2>1. \A o : Old(o)' <=> Old(o)
    BY <1>1 DEF Old
  <2>2. /\ \A o \in Of!Offer : offers'[o] # Of!None => Old(o)
        /\ \A d \in Asked : \A o \in byDriver'[d].ids : Old(o)
    BY <1>1, <1>2, <1>3 DEF OldOnes
  <2>3. \A d \in Asked : byDriver'[d].gone <= at + 1 + OfferRecordTTL
    <3> SUFFICES ASSUME NEW d \in Asked PROVE byDriver'[d].gone <= at + 1 + OfferRecordTTL
      OBVIOUS
    <3>1. /\ byDriver'[d].gone \in Nat /\ byDriver[d].gone \in Nat
          /\ byDriver'[d].gone <= byDriver[d].gone /\ byDriver[d].gone <= at + OfferRecordTTL
      BY <1>1, <1>3 DEF OfferTypes, OldOnes
    <3> QED
      BY <1>1, <3>1
  <2>4. byTrip'.gone <= at + 1 + OfferRecordTTL
    <3>1. /\ byTrip'.gone \in Nat /\ byTrip.gone \in Nat
          /\ byTrip'.gone <= byTrip.gone /\ byTrip.gone <= at + OfferRecordTTL
      BY <1>1, <1>4 DEF OfferTypes, OldOnes
    <3> QED
      BY <1>1, <3>1
  <2> QED
    BY <1>1, <2>1, <2>2, <2>3, <2>4 DEF OldOnes
<1>9. ASSUME Findable PROVE Findable'
  <2> SUFFICES ASSUME kept = "redis", NEW o \in Of!Offer, Of!Pending(o)'
               PROVE  /\ o \in byDriver'[o[1]].ids /\ offers'[o].gone <= byDriver'[o[1]].gone
                      /\ o \in byTrip'.ids /\ offers'[o].gone <= byTrip'.gone
                      /\ at + 1 < offers'[o].gone
    BY <1>1 DEF Findable
  <2>1. /\ offers'[o] = offers[o] /\ Of!Pending(o) /\ offers[o] # Of!None /\ o[1] \in Asked
        /\ offers[o] \in OfferRecord \cup {Of!None} /\ byDriver[o[1]].gone \in Nat /\ byTrip.gone \in Nat
    BY <1>1, <1>5 DEF Of!Pending, Of!None, Of!Offer, OfferTypes
  <2>2. offers[o].gone \in Nat \cup {-1} /\ offers[o].gone # at + 1
    BY <1>2, <2>1 DEF OfferRecord, Of!None, Of!Pending
  <2>3. /\ o \in byDriver[o[1]].ids /\ offers[o].gone <= byDriver[o[1]].gone
        /\ o \in byTrip.ids /\ offers[o].gone <= byTrip.gone /\ at < offers[o].gone
    BY <1>9, <2>1 DEF Findable
  <2>4. at + 1 < offers[o].gone /\ byDriver[o[1]].gone # at + 1 /\ byTrip.gone # at + 1
    BY <1>1, <2>1, <2>2, <2>3
  <2> QED
    BY <1>3, <1>4, <2>1, <2>3, <2>4
<1> QED
  BY <1>1, <1>6, <1>7, <1>8, <1>9, SoundAges DEF OfferInv

-------------------------------------------------------------------------------
\* Whatever a step does to an offer, the invariant is kept.
LEMMA OffersStep == ASSUME OfferInv, [Of!OffersNext]_stored PROVE OfferInv'
<1>1. ASSUME NEW o \in Of!Offer, Of!BeginUpdate(o) \/ Of!ListOne(o) \/ Of!BeginSweep(o) \/ Of!SweepOne(o)
      PROVE  OfferInv'
  BY <1>1, BeginUpdateStep, ListOneStep, BeginSweepStep, SweepOneStep
<1>2. ASSUME NEW chosen \in SUBSET Asked, Of!SaveOffers(chosen) PROVE OfferInv'
  BY <1>2, SaveStep
<1>3. ASSUME NEW d \in Asked, Of!BeginList(d) PROVE OfferInv'
  BY <1>3, BeginListStep
<1>4. CASE UNCHANGED stored
  BY <1>4 DEF stored, OfferInv, OfferTypes, OldOnes, Old, Findable, ListSound, SweepSound,
              Of!Pending, Of!IsOpen
<1> QED
  BY <1>1, <1>2, <1>3, <1>4, EndUpdateStep, EndListStep, ListReadStep, SweepWriteStep,
     EndSweepStep, LaterStep DEF Of!OffersNext

\* There are no offers yet.
LEMMA OffersStart == Of!OffersInit => OfferInv
<1> SUFFICES ASSUME Of!OffersInit PROVE OfferInv
  OBVIOUS
<1>1. OfferTypes
  BY DEF Of!OffersInit, OfferTypes, Of!NoSet, Ids, Of!Rest
<1>2. OldOnes
  BY OffersAssumption DEF Of!OffersInit, OldOnes, Of!NoSet, Of!Rest
<1>3. Findable /\ ListSound /\ SweepSound
  BY DEF Of!OffersInit, Findable, ListSound, SweepSound, Of!Pending, Of!None, Of!Rest
<1> QED
  BY <1>1, <1>2, <1>3 DEF OfferInv

\* And so it stays.
LEMMA OffersInvariant == MarketSpec => []OfferInv
<1>1. MarketInit => OfferInv
  BY OffersStart DEF MarketInit
<1>2. OfferInv /\ [MarketNext]_marketVars => OfferInv'
  <2> SUFFICES ASSUME OfferInv, [MarketNext]_marketVars PROVE OfferInv'
    OBVIOUS
  <2>1. UNCHANGED stored \/ Of!OffersNext
    BY DEF MarketNext, marketVars, dispatch
  <2> QED
    BY <2>1, OffersStep
<1> QED
  BY <1>1, <1>2, PTL DEF MarketSpec

-------------------------------------------------------------------------------
(* Who claims a trip (Claims).                                               *)

\* How much sooner than it says a claim may end.
Slack == IF keeper = "postgres" THEN Cl!Max(Leads) ELSE 0

ClaimTypes ==
  /\ moment \in Nat
  /\ claim = Cl!NoClaim \/ claim \in [driver : Rivals, until : Nat]
  /\ wins \subseteq [driver : Rivals, at : Nat, fresh : BOOLEAN]
  /\ \A w \in wins : w.at <= moment

\* Who was told "yes" still has it, or had his time.
Guarded(w) ==
  w.fresh => \/ Cl!Owner(w.driver) /\ claim.until >= w.at + ClaimTTL
             \/ moment >= w.at + ClaimTTL - Slack

\* Who was told "yes" this moment has it; only in memory he may have had it before.
JustWon(w) ==
  /\ keeper = "postgres" => w.fresh
  /\ keeper # "postgres" /\ w.at = moment => Cl!Owner(w.driver) /\ moment < claim.until

ClaimInv ==
  /\ ClaimTypes
  /\ \A w \in wins : Guarded(w) /\ JustWon(w)
  /\ Cl!ClaimHolds

-------------------------------------------------------------------------------
\* In Postgres a clock may be ahead by the largest lead, elsewhere by none.
LEMMA SlackIsMost ==
  /\ Slack \in Nat
  /\ keeper = "postgres" => \A lead \in Leads : lead <= Slack
<1>1. PICK most \in Leads : \A lead \in Leads : lead <= most
  BY ClaimsAssumption
<1>2. /\ Cl!Max(Leads) \in Leads /\ \A lead \in Leads : Cl!Max(Leads) >= lead
  BY <1>1, ClaimsAssumption DEF Cl!Max
<1> QED
  BY <1>2, ClaimsAssumption DEF Slack

\* A claim is taken from somebody else only when it has run out.
LEMMA WinStep ==
  ASSUME ClaimInv, NEW d \in Rivals, NEW until \in Nat, NEW fresh \in BOOLEAN,
         UNCHANGED <<keeper, moment>>,
         Cl!Win(d, [driver |-> d, until |-> until], fresh),
         keeper = "postgres" => fresh,
         keeper # "postgres" => moment < until,
         fresh => until >= moment + ClaimTTL,
         \* his own claim is not shortened below what it says
         Cl!Owner(d) => until >= claim.until \/ until >= moment + ClaimTTL,
         \* another one's has run out
         claim # Cl!NoClaim /\ ~Cl!Owner(d) => moment >= claim.until - Slack
  PROVE  ClaimInv'
<1> PICK n : n = [driver |-> d, at |-> moment, fresh |-> fresh]
  OBVIOUS
<1>1. /\ wins' = wins \cup {n} /\ claim' = [driver |-> d, until |-> until]
      /\ n.driver = d /\ n.at = moment /\ n.fresh = fresh
      /\ n \in [driver : Rivals, at : Nat, fresh : BOOLEAN]
      /\ moment \in Nat /\ ClaimTTL \in Nat /\ Slack \in Nat /\ Slack' = Slack
  BY ClaimsAssumption, SlackIsMost DEF Cl!Win, ClaimInv, ClaimTypes, Slack
<1>2. ClaimTypes'
  BY <1>1 DEF ClaimInv, ClaimTypes
<1>3. /\ claim'.driver = d /\ claim'.until = until /\ claim' # Cl!NoClaim
      /\ \A r : Cl!Owner(r)' <=> r = d
  <2>1. claim'.driver = d /\ claim'.until = until
    BY <1>1
  <2>2. claim' # Cl!NoClaim
    BY <1>1 DEF Cl!NoClaim
  <2> QED
    BY <2>1, <2>2 DEF Cl!Owner
<1>4. \A w \in wins : /\ w.at \in Nat /\ w.at <= moment /\ w.fresh \in BOOLEAN
                      /\ Guarded(w) /\ JustWon(w)
  BY DEF ClaimInv, ClaimTypes
<1>5. claim # Cl!NoClaim => claim.until \in Nat
  BY DEF ClaimInv, ClaimTypes
<1>6. \A w \in wins : Guarded(w)' /\ JustWon(w)'
  <2> SUFFICES ASSUME NEW w \in wins PROVE Guarded(w)' /\ JustWon(w)'
    OBVIOUS
  <2>1. Guarded(w)'
    <3>1. CASE w.fresh /\ Cl!Owner(w.driver) /\ claim.until >= w.at + ClaimTTL
      <4>1. claim # Cl!NoClaim /\ claim.until \in Nat
        BY <3>1, <1>5 DEF Cl!Owner
      <4>2. CASE w.driver = d
        <5>1. until >= w.at + ClaimTTL
          BY <1>1, <1>4, <3>1, <4>1, <4>2
        <5> QED
          BY <5>1, <1>3, <4>2 DEF Guarded
      <4>3. CASE w.driver # d
        <5>1. ~Cl!Owner(d)
          BY <3>1, <4>3 DEF Cl!Owner
        <5>2. moment >= w.at + ClaimTTL - Slack
          BY <1>1, <1>4, <3>1, <4>1, <5>1
        <5> QED
          BY <1>1, <5>2 DEF Guarded
      <4> QED
        BY <4>2, <4>3
    <3>2. CASE w.fresh /\ moment >= w.at + ClaimTTL - Slack
      BY <1>1, <3>2 DEF Guarded
    <3> QED
      BY <1>4, <3>1, <3>2 DEF Guarded
  <2>2. JustWon(w)'
    <3>1. CASE keeper # "postgres" /\ w.at = moment
      <4>1. /\ Slack = 0 /\ Cl!Owner(w.driver) /\ moment < claim.until
            /\ claim # Cl!NoClaim /\ claim.until \in Nat
        BY <1>4, <1>5, <3>1 DEF Slack, JustWon, Cl!Owner
      <4>2. Cl!Owner(d)
        BY <1>1, <4>1
      <4>3. w.driver = d
        BY <4>1, <4>2 DEF Cl!Owner
      <4> QED
        BY <1>3, <3>1, <4>3 DEF JustWon
    <3>2. CASE keeper = "postgres" \/ w.at # moment
      BY <1>4, <3>2 DEF JustWon
    <3> QED
      BY <3>1, <3>2
  <2> QED
    BY <2>1, <2>2
<1>7. Guarded(n)' /\ JustWon(n)'
  <2>1. Cl!Owner(n.driver)' /\ (fresh => claim'.until >= n.at + ClaimTTL)
    BY <1>1, <1>3
  <2> QED
    BY <1>1, <1>3, <2>1 DEF Guarded, JustWon
<1>8. Cl!ClaimHolds'
  <2> SUFFICES ASSUME NEW w \in wins', NEW v \in wins',
                      w.driver # v.driver, w.at <= v.at, w.fresh
               PROVE  v.at - w.at >= ClaimTTL - Slack
    BY <1>1 DEF Cl!ClaimHolds, Slack
  <2>1. CASE w \in wins /\ v \in wins
    BY <2>1 DEF ClaimInv, Cl!ClaimHolds, Slack
  <2>2. CASE v = n /\ w \in wins
    <3>1. ~Cl!Owner(w.driver)'
      BY <1>1, <1>3, <2>2
    <3>2. moment >= w.at + ClaimTTL - Slack
      BY <1>1, <1>6, <2>2, <3>1 DEF Guarded
    <3> QED
      BY <1>1, <1>4, <2>2, <3>2
  <2>3. CASE w = n /\ v \in wins
    <3>1. v.at = moment /\ ~Cl!Owner(v.driver)'
      BY <1>1, <1>3, <1>4, <2>3
    <3>2. keeper = "postgres"
      BY <1>1, <1>6, <3>1, <2>3 DEF JustWon
    <3>3. v.fresh
      BY <1>4, <2>3, <3>2 DEF JustWon
    <3>4. moment >= v.at + ClaimTTL - Slack
      BY <1>1, <1>6, <2>3, <3>1, <3>3 DEF Guarded
    <3> QED
      BY <1>1, <1>4, <2>3, <3>1, <3>4
  <2> QED
    BY <1>1, <2>1, <2>2, <2>3
<1> QED
  BY <1>1, <1>2, <1>6, <1>7, <1>8 DEF ClaimInv

\* All of Claims.
LEMMA ClaimsStep == ASSUME ClaimInv, Cl!ClaimsNext PROVE ClaimInv'
<1>1. /\ moment \in Nat /\ ClaimTTL \in Nat \ {0} /\ Leads \subseteq Nat /\ Slack \in Nat
      /\ keeper = "postgres" => \A lead \in Leads : lead <= Slack
      /\ keeper # "postgres" => Slack = 0
      /\ claim = Cl!NoClaim \/ claim \in [driver : Rivals, until : Nat]
      /\ claim # Cl!NoClaim => claim.until \in Nat
  BY ClaimsAssumption, SlackIsMost DEF ClaimInv, ClaimTypes, Slack
<1>6. ASSUME NEW d \in Rivals, keeper # "postgres", UNCHANGED <<keeper, moment>>,
             moment >= claim.until \/ Cl!Owner(d), Cl!Win(d, Cl!Hold(d, moment), TRUE)
      PROVE  ClaimInv'
  <2>1. /\ moment + ClaimTTL \in Nat /\ moment < moment + ClaimTTL /\ Slack = 0
        /\ moment + ClaimTTL >= moment + ClaimTTL
    BY <1>1, <1>6
  <2>2. claim # Cl!NoClaim /\ ~Cl!Owner(d) => moment >= claim.until - Slack
    BY <1>1, <1>6, <2>1
  <2>3. Cl!Win(d, [driver |-> d, until |-> moment + ClaimTTL], TRUE)
    BY <1>6 DEF Cl!Hold
  <2> QED
    BY <1>6, <2>1, <2>2, <2>3, WinStep
<1>2. ASSUME NEW d \in Rivals, Cl!ClaimInMemory(d) PROVE ClaimInv'
  <2>0. keeper # "postgres" /\ UNCHANGED <<keeper, moment>>
    BY <1>2 DEF Cl!ClaimInMemory
  <2>1. CASE moment >= claim.until /\ Cl!Win(d, Cl!Hold(d, moment), TRUE)
    BY <1>6, <2>0, <2>1
  <2>2. CASE moment < claim.until /\ Cl!Owner(d) /\ Cl!Win(d, claim, FALSE)
    <3>1. claim = [driver |-> d, until |-> claim.until] /\ claim.until \in Nat
      BY <1>1, <2>2 DEF Cl!Owner
    <3>2. Cl!Win(d, [driver |-> d, until |-> claim.until], FALSE)
      BY <2>2, <3>1 DEF Cl!Win
    <3>3. PICK until \in Nat : until = claim.until /\ until >= until
      BY <3>1
    <3>4. Cl!Win(d, [driver |-> d, until |-> until], FALSE)
      BY <3>2, <3>3
    <3> QED
      BY <2>0, <2>2, <3>3, <3>4, WinStep
  <2> QED
    BY <1>2, <2>1, <2>2 DEF Cl!ClaimInMemory
<1>3. ASSUME NEW d \in Rivals, Cl!ClaimInRedis(d) PROVE ClaimInv'
  BY <1>3, <1>6 DEF Cl!ClaimInRedis
<1>4. ASSUME NEW d \in Rivals, NEW lead \in Leads, Cl!ClaimInPostgres(d, lead) PROVE ClaimInv'
  <2>1. /\ lead \in Nat /\ lead <= Slack /\ moment + lead + ClaimTTL \in Nat
        /\ moment + lead + ClaimTTL >= moment + ClaimTTL
    BY <1>1, <1>4 DEF Cl!ClaimInPostgres
  <2>2. claim # Cl!NoClaim /\ ~Cl!Owner(d) => moment >= claim.until - Slack
    BY <1>1, <1>4, <2>1 DEF Cl!ClaimInPostgres
  <2>3. /\ Cl!Win(d, [driver |-> d, until |-> moment + lead + ClaimTTL], TRUE)
        /\ keeper = "postgres" /\ UNCHANGED <<keeper, moment>>
    BY <1>4 DEF Cl!ClaimInPostgres, Cl!Hold
  <2> QED
    BY <2>1, <2>2, <2>3, WinStep
<1>5. CASE Cl!Pass
  <2>1. moment' = moment + 1 /\ UNCHANGED <<keeper, claim, wins>> /\ Slack' = Slack
    BY <1>5 DEF Cl!Pass, Slack
  <2>2. \A w \in wins : w.at \in Nat /\ w.at <= moment /\ w.at # moment'
    BY <1>1, <2>1 DEF ClaimInv, ClaimTypes
  <2>3. ClaimTypes'
    BY <1>1, <2>1, <2>2 DEF ClaimInv, ClaimTypes
  <2>4. \A w \in wins : Guarded(w)'
    <3> SUFFICES ASSUME NEW w \in wins PROVE Guarded(w)'
      OBVIOUS
    <3>1. Guarded(w)
      BY DEF ClaimInv
    <3>2. moment >= w.at + ClaimTTL - Slack => moment' >= w.at + ClaimTTL - Slack
      BY <1>1, <2>1, <2>2
    <3> QED
      BY <2>1, <3>1, <3>2 DEF Guarded, Cl!Owner
  <2>5. \A w \in wins : JustWon(w)'
    BY <2>1, <2>2 DEF ClaimInv, JustWon
  <2>6. Cl!ClaimHolds'
    BY <2>1 DEF ClaimInv, Cl!ClaimHolds
  <2> QED
    BY <2>1, <2>3, <2>4, <2>5, <2>6 DEF ClaimInv
<1> QED
  BY <1>2, <1>3, <1>4, <1>5 DEF Cl!ClaimsNext

\* Nobody has claimed the trip yet.
LEMMA ClaimsStart == ASSUME Cl!ClaimsInit PROVE ClaimInv
BY DEF Cl!ClaimsInit, ClaimInv, ClaimTypes, Cl!ClaimHolds

\* And so it stays.
LEMMA ClaimsInvariant == MarketSpec => []ClaimInv
<1>1. MarketInit => ClaimInv
  BY ClaimsStart DEF MarketInit
<1>2. ClaimInv /\ [MarketNext]_marketVars => ClaimInv'
  <2> SUFFICES ASSUME ClaimInv, [MarketNext]_marketVars PROVE ClaimInv'
    OBVIOUS
  <2>1. UNCHANGED claims \/ Cl!ClaimsNext
    BY DEF MarketNext, marketVars, dispatch
  <2>2. CASE UNCHANGED claims
    BY <2>2 DEF claims, ClaimInv, ClaimTypes, Guarded, JustWon, Slack, Cl!Owner, Cl!ClaimHolds
  <2> QED
    BY <2>1, <2>2, ClaimsStep
<1> QED
  BY <1>1, <1>2, PTL DEF MarketSpec

-------------------------------------------------------------------------------
\* OffersHold: an open offer is in the sets of its driver and its trip, a list shows every
\* offer that stays open and a withdrawal leaves none, unless a read fails; and nobody
\* claims a trip while another one's claim still holds (matching/store_*.go).
THEOREM OffersAreKept == MarketSpec => []OffersHold
<1>1. OfferInv /\ ClaimInv => OffersHold
  BY DEF OfferInv, Findable, ListSound, SweepSound, ClaimInv, OffersHold, Of!OffersAreFound, Of!IsOpen
<1> QED
  BY <1>1, OffersInvariant, ClaimsInvariant, PTL

-------------------------------------------------------------------------------
(* What a rider is shown (Tracking).                                         *)

\* Rides are numbered, and there is a last one.
LEMMA RidesAreNumbered == \E last \in Nat : Rides \subseteq 1 .. last
<1>1. PICK last \in {0} \cup Rides : \A t \in Rides : t <= last
  BY TrackingAssumption
<1>2. last \in Nat
  BY TrackingAssumption
<1>3. ASSUME NEW t \in Rides PROVE t \in 1 .. last
  <2>1. t \in Nat \ {0}
    BY TrackingAssumption
  <2>2. t <= last
    BY <1>1
  <2> QED
    BY <1>2, <2>1, <2>2
<1> QED
  BY <1>2, <1>3

RideStatus == {"SEARCHING", "ASSIGNED", "ARRIVED", "IN_PROGRESS", "COMPLETED", "CANCELLED", "PAID"}

TrackingTypes ==
  /\ rides \in [Rides -> RideStatus] /\ busy \in BOOLEAN
  /\ measured \in Nat /\ letOut \in [Rides -> Nat \cup {-1}]
  /\ flying \subseteq 0 .. measured
  /\ handlers \in [Handlers -> [step : {"rest", "look", "push"}, at : 0 .. measured,
                                trip : Rides \cup {0}]]
  /\ shown \in [trip : Rides \cup {0}, at : 0 .. measured]

\* The ride under way is the last one that was assigned, and keeps the driver busy.
RidingIsLast ==
  /\ Tr!Riding # {} => busy
  /\ \A t \in Tr!Riding : \A u \in Rides : u > t => rides[u] = "SEARCHING"

\* A rider is let out once, at the end.
LetOutAtEnd ==
  \A t \in Rides : rides[t] \in {"SEARCHING", "ASSIGNED", "ARRIVED", "IN_PROGRESS"}
                     => letOut[t] = -1

\* What is shown, and what a handler is about to show, was measured while the rider was
\* in the car or waited for it.
NotAfter(trip, when) == trip # 0 /\ letOut[trip] >= 0 => when <= letOut[trip]

TrackingInv ==
  /\ TrackingTypes /\ RidingIsLast /\ LetOutAtEnd
  /\ NotAfter(shown.trip, shown.at)
  /\ \A h \in Handlers : handlers[h].step = "push" => NotAfter(handlers[h].trip, handlers[h].at)

-------------------------------------------------------------------------------
\* Every nonempty set of natural numbers has a least one.
LEMMA LeastExists ==
  ASSUME NEW T, T \subseteq Nat, T # {}
  PROVE  \E x \in T : \A y \in T : x <= y
<1> DEFINE R == {ss \in Nat \X Nat : ss[1] < ss[2]}
<1>1. IsWellFoundedOn(R, Nat)
  BY NatLessThanWellFounded DEF OpToRel
<1> HIDE DEF R
<1>2. PICK x \in T : \A y \in T : ~ (<<y, x>> \in R)
  BY <1>1, WFMin
<1>3. \A y \in T : y < x => <<y, x>> \in R
  BY DEF R
<1> SUFFICES ASSUME NEW y \in T PROVE x <= y
  OBVIOUS
<1>4. x \in Nat /\ y \in Nat /\ ~(y < x)
  BY <1>2, <1>3
<1> QED
  BY <1>4

\* A set of numbers that has a bound has a greatest one.
LEMMA GreatestExists ==
  ASSUME NEW n \in Nat, NEW S, S \subseteq 0 .. n, S # {}
  PROVE  \E x \in S : \A y \in S : x >= y
<1> DEFINE T == {m \in Nat : \A y \in S : y <= m}
<1>1. PICK m \in T : \A k \in T : m <= k
  <2>1. n \in T /\ T \subseteq Nat
    OBVIOUS
  <2> QED
    BY <2>1, LeastExists
<1>2. m \in S
  <2> SUFFICES ASSUME m \notin S PROVE FALSE
    OBVIOUS
  <2>1. \A y \in S : y <= m - 1 /\ y \in Nat
    BY <1>1
  <2>2. PICK y \in S : y <= m - 1 /\ y \in Nat
    BY <2>1
  <2>3. m - 1 \in Nat
    BY <1>1, <2>2
  <2>4. m - 1 \in T
    BY <2>1, <2>3
  <2> QED
    BY <1>1, <2>3, <2>4
<1> QED
  BY <1>1, <1>2

\* The trip that is found is a trip.
LEMMA CurrentIsTrip == Tr!CurrentForDriver \in Rides \cup {0}
<1> DEFINE S == Tr!Riding \cup Tr!Unpaid
<1>0. PICK last \in Nat : Rides \subseteq 1 .. last
  BY RidesAreNumbered
<1>1. S \subseteq Rides /\ Rides \subseteq 0 .. last
  BY <1>0 DEF Tr!Riding, Tr!Unpaid
<1>2. S # {} => Tr!Max(S) \in S
  BY <1>1, GreatestExists DEF Tr!Max
<1>3. S \subseteq Rides
  BY DEF Tr!Riding, Tr!Unpaid
<1> QED
  BY <1>2, <1>3 DEF Tr!CurrentForDriver

\* The ride under way is the one that is looked up.
LEMMA RidingIsCurrent ==
  ASSUME TrackingTypes, RidingIsLast, NEW t \in Tr!Riding
  PROVE  /\ Tr!CurrentForDriver = t /\ Tr!Riding = {t} /\ t \in Rides /\ t # 0
<1>1. t \in Rides /\ Rides \subseteq Nat /\ t # 0 /\ Tr!Riding \subseteq Rides /\ Tr!Unpaid \subseteq Rides
  BY RidesAreNumbered DEF Tr!Riding, Tr!Unpaid
<1>2. \A u \in Tr!Riding \cup Tr!Unpaid : u <= t
  <2> SUFFICES ASSUME NEW u \in Tr!Riding \cup Tr!Unpaid, ~(u <= t) PROVE FALSE
    OBVIOUS
  <2>1. u > t /\ u \in Rides
    BY <1>1
  <2>2. rides[u] = "SEARCHING"
    BY <2>1 DEF RidingIsLast
  <2> QED
    BY <2>2 DEF Tr!Riding, Tr!Unpaid
<1>3. Tr!Riding = {t}
  <2> SUFFICES ASSUME NEW u \in Tr!Riding, u # t PROVE FALSE
    OBVIOUS
  <2>1. t > u /\ t \in Rides
    BY <1>1, <1>2
  <2>2. rides[t] = "SEARCHING"
    BY <2>1 DEF RidingIsLast
  <2> QED
    BY <2>2 DEF Tr!Riding
<1>4. Tr!Max(Tr!Riding \cup Tr!Unpaid) = t
  <2> DEFINE S == Tr!Riding \cup Tr!Unpaid
             m == CHOOSE x \in S : \A y \in S : x >= y
  <2>1. t \in S /\ S \subseteq Nat /\ \A y \in S : t >= y
    BY <1>1, <1>2
  <2> HIDE DEF S
  <2>2. \E x \in S : \A y \in S : x >= y
    BY <2>1
  <2>3. m \in S /\ \A y \in S : m >= y
    BY <2>2
  <2>4. m >= t /\ t >= m /\ m \in Nat /\ t \in Nat
    BY <2>1, <2>3
  <2>5. m = t
    BY <2>4
  <2> QED
    BY <2>5 DEF Tr!Max, S
<1> QED
  BY <1>1, <1>3, <1>4 DEF Tr!CurrentForDriver

\* All of Tracking.
LEMMA TrackingStep == ASSUME TrackingInv, Tr!TrackingNext PROVE TrackingInv'
<1>0. TrackingTypes /\ RidingIsLast /\ LetOutAtEnd /\ measured \in Nat /\ Rides \subseteq Nat
  BY RidesAreNumbered DEF TrackingInv, TrackingTypes
<1>1. ASSUME NEW t \in Rides, Tr!Assign(t) PROVE TrackingInv'
  <2>1. /\ rides' = [rides EXCEPT ![t] = "ASSIGNED"] /\ busy' = TRUE /\ Tr!Riding = {}
        /\ \A u \in Rides : u > t => rides[u] = "SEARCHING"
        /\ rides[t] = "SEARCHING"
        /\ UNCHANGED <<measured, letOut, flying, handlers, shown>>
    BY <1>0, <1>1 DEF Tr!Assign, RidingIsLast
  <2>2. TrackingTypes'
    BY <1>0, <2>1 DEF TrackingTypes, RideStatus
  <2>3. Tr!Riding' = {t}
    BY <1>0, <2>1 DEF Tr!Riding, TrackingTypes
  <2>4. RidingIsLast'
    <3> SUFFICES ASSUME NEW u \in Rides, u > t PROVE rides'[u] = "SEARCHING"
      BY <2>1, <2>3 DEF RidingIsLast
    <3> QED
      BY <1>0, <2>1 DEF TrackingTypes
  <2>5. LetOutAtEnd'
    BY <1>0, <2>1 DEF LetOutAtEnd, TrackingTypes
  <2> QED
    BY <2>1, <2>2, <2>4, <2>5 DEF TrackingInv, NotAfter
<1>2. ASSUME NEW t \in Rides, Tr!Go(t) PROVE TrackingInv'
  <2>1. PICK to \in Tr!After(rides[t]) :
          /\ rides' = [rides EXCEPT ![t] = to]
          /\ letOut' = IF to \in {"COMPLETED", "CANCELLED"}
                       THEN [letOut EXCEPT ![t] = measured] ELSE letOut
          /\ UNCHANGED <<busy, measured, flying, handlers, shown>>
    BY <1>2 DEF Tr!Go
  <2>2. /\ to \in RideStatus /\ rides[t] # "SEARCHING" /\ to # "SEARCHING"
        /\ to \in {"ASSIGNED", "ARRIVED", "IN_PROGRESS"} => t \in Tr!Riding
        /\ to \in {"COMPLETED", "CANCELLED"} => t \in Tr!Riding
    BY DEF Tr!After, Tr!Riding, RideStatus
  <2>3. TrackingTypes'
    BY <1>0, <2>1, <2>2 DEF TrackingTypes
  <2>4. Tr!Riding' \subseteq Tr!Riding
    BY <1>0, <2>1, <2>2 DEF Tr!Riding, TrackingTypes
  <2>5. RidingIsLast'
    <3> SUFFICES ASSUME NEW u \in Tr!Riding', NEW v \in Rides, v > u PROVE rides'[v] = "SEARCHING"
      BY <1>0, <2>1, <2>4 DEF RidingIsLast
    <3>1. rides[v] = "SEARCHING"
      BY <1>0, <2>4 DEF RidingIsLast
    <3> QED
      BY <1>0, <2>1, <2>2, <3>1 DEF TrackingTypes
  <2>6. LetOutAtEnd'
    BY <1>0, <2>1, <2>2 DEF LetOutAtEnd, TrackingTypes, Tr!Riding
  <2>7. ASSUME NEW trip \in Rides \cup {0}, NEW when \in 0 .. measured, NotAfter(trip, when)
        PROVE  trip # 0 /\ letOut'[trip] >= 0 => when <= letOut'[trip]
    BY <1>0, <2>1, <2>7 DEF NotAfter, TrackingTypes
  <2> QED
    BY <1>0, <2>1, <2>3, <2>5, <2>6, <2>7 DEF TrackingInv, NotAfter, TrackingTypes
<1>3. CASE Tr!SyncDriver
  BY <1>0, <1>3 DEF Tr!SyncDriver, TrackingInv, TrackingTypes, RidingIsLast, LetOutAtEnd, NotAfter, Tr!Riding
<1>4. CASE Tr!Measure
  <2>1. /\ measured' = measured + 1 /\ flying' = flying \cup {measured + 1}
        /\ UNCHANGED <<rides, busy, letOut, handlers, shown>>
        /\ 0 .. measured \subseteq 0 .. measured' /\ measured' \in 0 .. measured' /\ measured' \in Nat
    BY <1>0, <1>4 DEF Tr!Measure
  <2>2. TrackingTypes'
    BY <1>0, <2>1 DEF TrackingTypes
  <2> QED
    BY <1>0, <2>1, <2>2 DEF TrackingInv, RidingIsLast, LetOutAtEnd, NotAfter, Tr!Riding
<1>5. ASSUME NEW h \in Handlers, NEW when \in flying, Tr!Ingest(h, when) PROVE TrackingInv'
  <2>1. /\ handlers' = [handlers EXCEPT ![h].step = IF busy THEN "look" ELSE "rest", ![h].at = when]
        /\ flying' \in {flying, flying \ {when}} /\ when \in 0 .. measured
        /\ UNCHANGED <<rides, busy, measured, letOut, shown>>
    BY <1>0, <1>5 DEF Tr!Ingest, TrackingTypes
  <2>2. /\ handlers' \in [Handlers -> [step : {"rest", "look", "push"}, at : 0 .. measured,
                                       trip : Rides \cup {0}]]
        /\ handlers'[h].step # "push"
        /\ \A k \in Handlers : k # h => handlers'[k] = handlers[k]
    BY <1>0, <2>1, ZenonT(60) DEF TrackingTypes
  <2>3. TrackingTypes'
    BY <1>0, <2>1, <2>2 DEF TrackingTypes
  <2> QED
    BY <1>0, <2>1, <2>2, <2>3 DEF TrackingInv, RidingIsLast, LetOutAtEnd, NotAfter, Tr!Riding
<1>6. ASSUME NEW h \in Handlers, Tr!Look(h) PROVE TrackingInv'
  <2>1. UNCHANGED <<rides, busy, measured, letOut, flying, shown>>
    BY <1>6 DEF Tr!Look
  <2>2. ASSUME NEW t \in Rides \cup {0},
               \/ handlers' = [handlers EXCEPT ![h].trip = t, ![h].step = "rest"]
               \/ handlers' = [handlers EXCEPT ![h].step = "rest"]
        PROVE  TrackingInv'
    <3>1. /\ handlers' \in [Handlers -> [step : {"rest", "look", "push"}, at : 0 .. measured,
                                         trip : Rides \cup {0}]]
          /\ handlers'[h].step = "rest"
          /\ \A k \in Handlers : k # h => handlers'[k] = handlers[k]
      BY <1>0, <2>2 DEF TrackingTypes
    <3>2. TrackingTypes'
      BY <1>0, <2>1, <3>1 DEF TrackingTypes
    <3> QED
      BY <1>0, <2>1, <3>1, <3>2
         DEF TrackingInv, RidingIsLast, LetOutAtEnd, NotAfter, Tr!Riding
  <2>3. ASSUME NEW t \in Tr!Riding, Tr!CurrentForDriver = t,
               handlers' = [handlers EXCEPT ![h].trip = t, ![h].step = "push"]
        PROVE  TrackingInv'
    <3>1. t \in Rides /\ letOut[t] = -1
      BY <1>0 DEF Tr!Riding, LetOutAtEnd
    <3>2. /\ handlers' \in [Handlers -> [step : {"rest", "look", "push"}, at : 0 .. measured,
                                         trip : Rides \cup {0}]]
          /\ handlers'[h].trip = t
          /\ \A k \in Handlers : k # h => handlers'[k] = handlers[k]
      BY <1>0, <2>3, <3>1 DEF TrackingTypes
    <3>3. TrackingTypes'
      BY <1>0, <2>1, <3>2 DEF TrackingTypes
    <3> QED
      BY <1>0, <2>1, <3>1, <3>2, <3>3 DEF TrackingInv, RidingIsLast, LetOutAtEnd, NotAfter, Tr!Riding
  <2> QED
    BY <1>6, <2>2, <2>3, CurrentIsTrip DEF Tr!Look
<1>7. ASSUME NEW h \in Handlers, Tr!Push(h) PROVE TrackingInv'
  <2>1. /\ UNCHANGED <<rides, busy, measured, letOut, flying>> /\ handlers[h].step = "push"
        /\ shown' = shown \/ shown' = [trip |-> handlers[h].trip, at |-> handlers[h].at]
        /\ handlers' = [handlers EXCEPT ![h].step = "rest"]
    BY <1>7 DEF Tr!Push
  <2>2. /\ handlers' \in [Handlers -> [step : {"rest", "look", "push"}, at : 0 .. measured,
                                       trip : Rides \cup {0}]]
        /\ handlers'[h].step = "rest"
        /\ \A k \in Handlers : k # h => handlers'[k] = handlers[k]
        /\ shown' \in [trip : Rides \cup {0}, at : 0 .. measured]
    BY <1>0, <2>1 DEF TrackingTypes
  <2>3. NotAfter(shown.trip, shown.at)'
    BY <2>1 DEF TrackingInv, NotAfter
  <2>4. TrackingTypes'
    BY <1>0, <2>1, <2>2 DEF TrackingTypes
  <2> QED
    BY <1>0, <2>1, <2>2, <2>3, <2>4 DEF TrackingInv, RidingIsLast, LetOutAtEnd, NotAfter, Tr!Riding
<1> QED
  BY <1>1, <1>2, <1>3, <1>4, <1>5, <1>6, <1>7 DEF Tr!TrackingNext

\* Nobody rides yet.
LEMMA TrackingStarts == ASSUME Tr!TrackingInit PROVE TrackingInv
<1>1. Tr!Riding = {}
  BY DEF Tr!TrackingInit, Tr!Riding
<1>2. TrackingTypes
  <2>1. 0 \in 0 .. 0
    OBVIOUS
  <2>2. measured = 0 /\ shown \in [trip : Rides \cup {0}, at : 0 .. 0]
    BY <2>1 DEF Tr!TrackingInit
  <2>3. handlers \in [Handlers -> [step : {"rest", "look", "push"}, at : 0 .. 0,
                                  trip : Rides \cup {0}]]
    BY <2>1 DEF Tr!TrackingInit
  <2>4. /\ rides \in [Rides -> RideStatus] /\ letOut \in [Rides -> Nat \cup {-1}]
        /\ busy \in BOOLEAN /\ flying = {}
    BY DEF Tr!TrackingInit, RideStatus
  <2> QED
    BY <2>2, <2>3, <2>4 DEF TrackingTypes
<1> QED
  BY <1>1, <1>2 DEF Tr!TrackingInit, TrackingInv, RidingIsLast, LetOutAtEnd, NotAfter

\* And so it stays.
LEMMA TrackingInvariant == MarketSpec => []TrackingInv
<1>1. MarketInit => TrackingInv
  BY TrackingStarts DEF MarketInit
<1>2. TrackingInv /\ [MarketNext]_marketVars => TrackingInv'
  <2> SUFFICES ASSUME TrackingInv, [MarketNext]_marketVars PROVE TrackingInv'
    OBVIOUS
  <2>1. UNCHANGED tracking \/ Tr!TrackingNext
    BY DEF MarketNext, marketVars, dispatch
  <2>2. CASE UNCHANGED tracking
    BY <2>2 DEF tracking, TrackingInv, TrackingTypes, RidingIsLast, LetOutAtEnd, NotAfter, Tr!Riding
  <2> QED
    BY <2>1, <2>2, TrackingStep
<1> QED
  BY <1>1, <1>2, PTL DEF MarketSpec

\* OnlyOwnRider: whatever handlers overtake each other, a rider is shown where the driver
\* of the own ride is, and nothing measured after it ended (app/realtime.go: DriverMoved).
THEOREM RiderSeesOwnRide == MarketSpec => []OnlyOwnRider
<1>1. TrackingInv => OnlyOwnRider
  BY RidingIsCurrent DEF TrackingInv, NotAfter, OnlyOwnRider, Tr!OnlyOwnRider
<1> QED
  BY <1>1, TrackingInvariant, PTL

-------------------------------------------------------------------------------
(* What is looked up elsewhere (Lookups).                                    *)

Keys == {Lo!Key(s) : s \in Spots}
Item == [said : Nat, exp : Nat]
Fetching == [step : {"fetch"}, spot : Spots]
Keeping == [step : {"keep"}, spot : Spots, said : Nat]
Toldly == [step : {"told"}, said : Nat, at : Nat]
Sending == [step : {"send"}, said : Nat]
Asking == Fetching \cup Keeping \cup Toldly \cup Sending \cup {Lo!Resting}

LookupTypes ==
  /\ instant \in Nat \ {0} /\ token \in Nat
  /\ items \in [Keys -> Item]
  /\ asks \in [Askers -> Asking]
  /\ exchange \in [Askers -> Nat]

\* What is remembered, kept, told and sent is no older than it may be.
Young(ask) ==
  /\ ask.step = "keep" => ask.said <= instant /\ instant - ask.said <= Lag
  /\ ask.step = "told" => ask.at - ask.said <= TTL + Lag
  /\ ask.step = "send" => /\ ask.said <= instant /\ instant - ask.said <= Lag
                          /\ ask.said + Lag < token

\* One asks for a token at a time, and gets one that lives longer.
Exchanging(a) ==
  exchange[a] # 0 =>
    /\ exchange[a] <= instant /\ instant - exchange[a] <= Lag
    /\ token <= exchange[a] + TokenLife
    /\ \A b \in Askers \ {a} : exchange[b] = 0

LookupInv ==
  /\ LookupTypes
  /\ \A k \in Keys : items[k] # Lo!Nothing => items[k].exp <= items[k].said + Lag + TTL
  /\ \A a \in Askers : Young(asks[a])
  /\ \A a \in Askers : Exchanging(a)
  /\ token <= instant + TokenLife
  /\ cacheKind = "memory" => Cardinality(Lo!Stocked) <= MaxItems

-------------------------------------------------------------------------------
\* Lookups counts entries with its own copy of FiniteSets.
LEMMA SameSize == \A S : Lo!Cardinality(S) = Cardinality(S)
BY DEF Cardinality, Lo!Cardinality

\* There are no more entries than rounded points: they can be counted.
LEMMA StockedIsFinite ==
  ASSUME LookupTypes
  PROVE  Lo!Stocked \subseteq Keys /\ IsFiniteSet(Keys) /\ IsFiniteSet(Lo!Stocked)
         /\ Cardinality(Lo!Stocked) \in Nat
<1>1. IsFiniteSet(Keys)
  <2> DEFINE f == [s \in Spots |-> Lo!Key(s)]
  <2>1. f \in Surjection(Spots, Keys)
    BY DEF Surjection, Keys
  <2> QED
    BY <2>1, LookupsAssumption, FS_Surjection
<1>2. Lo!Stocked \subseteq Keys
  BY DEF Lo!Stocked, LookupTypes
<1> QED
  BY <1>1, <1>2, FS_Subset, FS_CardinalityType

\* When room has been made there is room for one more.
LEMMA RoomForOne ==
  ASSUME LookupTypes, cacheKind = "memory", NEW stay \in Lo!Room, NEW k
  PROVE  /\ IsFiniteSet(stay \cup {k})
         /\ Cardinality(stay \cup {k}) <= MaxItems
<1>1. /\ IsFiniteSet(Lo!Stocked) /\ Cardinality(Lo!Stocked) \in Nat /\ MaxItems \in Nat \ {0}
  BY StockedIsFinite, LookupsAssumption
<1> DEFINE fresh == {j \in Lo!Stocked : Lo!Fresh(j)}
<1>0. stay \in IF cacheKind = "redis" \/ Cardinality(Lo!Stocked) < MaxItems THEN {Lo!Stocked}
              ELSE IF Cardinality(fresh) < MaxItems THEN {fresh}
                   ELSE {s \in SUBSET fresh : Cardinality(s) = MaxItems - 1}
  BY SameSize DEF Lo!Room
<1>a. fresh \subseteq Lo!Stocked
  OBVIOUS
<1> HIDE DEF fresh
<1>2. stay \subseteq Lo!Stocked
  BY <1>0, <1>a
<1>3. IsFiniteSet(stay) /\ Cardinality(stay) \in Nat
  BY <1>1, <1>2, FS_Subset, FS_CardinalityType
<1>4. Cardinality(stay) < MaxItems
  <2>1. CASE Cardinality(Lo!Stocked) < MaxItems
    BY <1>0, <2>1
  <2>2. CASE ~(Cardinality(Lo!Stocked) < MaxItems) /\ Cardinality(fresh) < MaxItems
    BY <1>0, <2>2
  <2>3. CASE ~(Cardinality(Lo!Stocked) < MaxItems) /\ ~(Cardinality(fresh) < MaxItems)
    <3>1. Cardinality(stay) = MaxItems - 1
      BY <1>0, <2>3
    <3> QED
      BY <1>1, <3>1
  <2> QED
    BY <2>1, <2>2, <2>3
<1>5. IsFiniteSet(stay \cup {k}) /\ Cardinality(stay \cup {k}) <= Cardinality(stay) + 1
  <2>1. Cardinality(stay \cup {k}) = IF k \in stay THEN Cardinality(stay) ELSE Cardinality(stay) + 1
    BY <1>3, FS_AddElement
  <2> QED
    BY <1>3, <2>1, FS_AddElement
<1> QED
  BY <1>1, <1>3, <1>4, <1>5, FS_CardinalityType

\* What is asked is of its kind.
LEMMA AskKinds ==
  ASSUME LookupTypes, NEW a \in Askers
  PROVE  /\ asks[a].step = "fetch" => asks[a] \in Fetching
         /\ asks[a].step = "keep" => asks[a] \in Keeping
         /\ asks[a].step = "told" => asks[a] \in Toldly
         /\ asks[a].step = "send" => asks[a] \in Sending
<1>1. asks[a] \in Asking
  BY DEF LookupTypes
<1> QED
  BY <1>1 DEF Asking, Fetching, Keeping, Toldly, Sending, Lo!Resting

\* One asker goes on, with nothing remembered or exchanged.
LEMMA AskerStep ==
  ASSUME LookupInv, NEW a \in Askers, NEW ask \in Asking,
         UNCHANGED <<cacheKind, instant, items, token, exchange>>,
         asks' = [asks EXCEPT ![a] = ask],
         Young(ask)
  PROVE  LookupInv'
<1>1. LookupTypes'
  BY DEF LookupInv, LookupTypes
<1>2. \A b \in Askers : Young(asks[b])'
  <2> SUFFICES ASSUME NEW b \in Askers PROVE Young(asks[b])'
    OBVIOUS
  <2>1. asks'[b] = IF b = a THEN ask ELSE asks[b]
    BY DEF LookupInv, LookupTypes
  <2> QED
    BY <2>1 DEF LookupInv, Young
<1>3. Lo!Stocked' = Lo!Stocked
  BY DEF Lo!Stocked
<1> QED
  BY <1>1, <1>2, <1>3 DEF LookupInv, Exchanging

\* What is remembered changes; less, or one more where there is room.
LEMMA MemoryStep ==
  ASSUME LookupInv, NEW a \in Askers, NEW ask \in Asking,
         UNCHANGED <<cacheKind, instant, token, exchange>>,
         asks' = [asks EXCEPT ![a] = ask], Young(ask),
         items' \in [Keys -> Item],
         \A k \in Keys : items'[k] # Lo!Nothing => items'[k].exp <= items'[k].said + Lag + TTL,
         cacheKind = "memory" => Cardinality(Lo!Stocked') <= MaxItems
  PROVE  LookupInv'
<1>1. LookupTypes'
  BY DEF LookupInv, LookupTypes
<1>2. \A b \in Askers : Young(asks[b])'
  <2> SUFFICES ASSUME NEW b \in Askers PROVE Young(asks[b])'
    OBVIOUS
  <2>1. asks'[b] = IF b = a THEN ask ELSE asks[b]
    BY DEF LookupInv, LookupTypes
  <2> QED
    BY <2>1 DEF LookupInv, Young
<1> QED
  BY <1>1, <1>2 DEF LookupInv, Exchanging

\* An address is found in the memory, or asked for.
LEMMA LookUpStep ==
  ASSUME LookupInv, NEW a \in Askers, NEW place \in Spots, Lo!LookUp(a, place)
  PROVE  LookupInv'
<1> PICK k : k = Lo!Key(place)
  OBVIOUS
<1>1. /\ LookupTypes /\ k \in Keys /\ items[k] \in Item
      /\ UNCHANGED <<cacheKind, instant, token, exchange>>
  BY DEF LookupInv, LookupTypes, Lo!LookUp, Keys
<1>2. CASE /\ Lo!Fresh(k) /\ asks' = [asks EXCEPT ![a] = Lo!Told(items[k].said)]
           /\ UNCHANGED items
  <2>1. instant <= items[k].exp /\ items[k].exp <= items[k].said + Lag + TTL
        /\ items[k].exp \in Nat /\ items[k].said \in Nat /\ instant \in Nat
    BY <1>1, <1>2, LookupsAssumption DEF Lo!Fresh, LookupInv, LookupTypes, Item
  <2>2. Lo!Told(items[k].said) \in Toldly
        /\ instant - items[k].said <= TTL + Lag
    BY <2>1, LookupsAssumption DEF Lo!Told, Toldly
  <2>3. Young(Lo!Told(items[k].said))
    BY <2>2 DEF Lo!Told, Young
  <2> QED
    BY <1>1, <1>2, <2>2, <2>3, AskerStep DEF Asking
<1>3. ASSUME asks' = [asks EXCEPT ![a] = [step |-> "fetch", spot |-> place]],
             items' = [items EXCEPT ![k] = Lo!Nothing] \/ UNCHANGED items
      PROVE  LookupInv'
  <2>1. [step |-> "fetch", spot |-> place] \in Asking /\ Young([step |-> "fetch", spot |-> place])
    BY DEF Asking, Fetching, Young
  <2>2. CASE UNCHANGED items
    BY <1>1, <1>3, <2>1, <2>2, AskerStep
  <2>3. CASE items' = [items EXCEPT ![k] = Lo!Nothing]
    <3>1. /\ items' \in [Keys -> Item]
          /\ \A j \in Keys : items'[j] # Lo!Nothing => items'[j] = items[j]
      BY <1>1, <2>3 DEF LookupTypes, Lo!Nothing, Item
    <3>2. Lo!Stocked' \subseteq Lo!Stocked
      BY <1>1, <3>1 DEF Lo!Stocked, LookupTypes
    <3>3. Cardinality(Lo!Stocked') <= Cardinality(Lo!Stocked) /\ Cardinality(Lo!Stocked') \in Nat
      BY <1>1, <3>2, StockedIsFinite, FS_Subset, FS_CardinalityType
    <3>4. cacheKind = "memory" => Cardinality(Lo!Stocked') <= MaxItems
      BY <1>1, <3>3, StockedIsFinite, LookupsAssumption DEF LookupInv
    <3> QED
      BY <1>1, <1>3, <2>1, <3>1, <3>4, MemoryStep DEF LookupInv
  <2> QED
    BY <1>3, <2>2, <2>3
<1> QED
  BY <1>2, <1>3 DEF Lo!LookUp

\* An answer is kept, after room has been made, and told.
LEMMA KeepStep == ASSUME LookupInv, NEW a \in Askers, Lo!Keep(a) PROVE LookupInv'
<1> PICK k, said : k = Lo!Key(asks[a].spot) /\ said = asks[a].said
  OBVIOUS
<1>1. /\ LookupTypes /\ asks[a] \in Keeping /\ k \in Keys /\ said \in Nat /\ instant \in Nat
      /\ asks[a].step = "keep" /\ said <= instant /\ instant - said <= Lag
      /\ UNCHANGED <<cacheKind, instant, token, exchange>>
      /\ asks' = [asks EXCEPT ![a] = Lo!Told(said)]
  <2>1. LookupTypes /\ asks[a] \in Keeping /\ asks[a].step = "keep" /\ Young(asks[a])
    BY AskKinds DEF LookupInv, Lo!Keep
  <2> QED
    BY <2>1 DEF Keeping, Keys, Young, LookupTypes, Lo!Keep
<1>2. Lo!Told(said) \in Asking /\ Young(Lo!Told(said))
  BY <1>1, LookupsAssumption DEF Lo!Told, Asking, Toldly, Young
<1>3. CASE UNCHANGED items
  BY <1>1, <1>2, <1>3, AskerStep
<1>4. ASSUME NEW stay \in Lo!Room,
             items' = [j \in DOMAIN items |->
               IF j = k THEN [said |-> said, exp |-> instant + TTL]
               ELSE IF j \in stay THEN items[j] ELSE Lo!Nothing]
      PROVE  LookupInv'
  <2>1. /\ items' \in [Keys -> Item]
        /\ \A j \in Keys \ {k} : items'[j] # Lo!Nothing => items'[j] = items[j] /\ j \in stay
        /\ items'[k] = [said |-> said, exp |-> instant + TTL]
    <3>1. [said |-> said, exp |-> instant + TTL] \in Item /\ Lo!Nothing \in Item
      BY <1>1, LookupsAssumption DEF Item, Lo!Nothing
    <3>2. DOMAIN items = Keys /\ items \in [Keys -> Item]
      BY <1>1 DEF LookupTypes
    <3> QED
      BY <1>1, <1>4, <3>1, <3>2
  <2>2. \A j \in Keys : items'[j] # Lo!Nothing => items'[j].exp <= items'[j].said + Lag + TTL
    <3>1. instant + TTL <= said + Lag + TTL
      BY <1>1, LookupsAssumption
    <3> QED
      BY <2>1, <3>1 DEF LookupInv
  <2>3. cacheKind = "memory" => Cardinality(Lo!Stocked') <= MaxItems
    <3> SUFFICES ASSUME cacheKind = "memory" PROVE Cardinality(Lo!Stocked') <= MaxItems
      OBVIOUS
    <3>1. Lo!Stocked' \subseteq stay \cup {k}
      BY <2>1 DEF Lo!Stocked
    <3>2. IsFiniteSet(stay \cup {k}) /\ Cardinality(stay \cup {k}) <= MaxItems
      BY <1>1, RoomForOne
    <3> QED
      BY <3>1, <3>2, FS_Subset, FS_CardinalityType, LookupsAssumption
  <2> QED
    BY <1>1, <1>2, <1>4, <2>1, <2>2, <2>3, MemoryStep
<1> QED
  BY <1>3, <1>4 DEF Lo!Keep

\* The provider answers; an asker has been told.
LEMMA FetchStep ==
  ASSUME LookupInv, NEW a \in Askers, Lo!Fetch(a) \/ Lo!Rest(a)
  PROVE  LookupInv'
<1>1. UNCHANGED <<cacheKind, instant, items, token, exchange>> /\ instant \in Nat
  BY DEF Lo!Fetch, Lo!Rest, LookupInv, LookupTypes
<1>2. CASE asks' = [asks EXCEPT ![a] = Lo!Resting]
  <2>1. Lo!Resting \in Asking /\ Young(Lo!Resting)
    BY DEF Lo!Resting, Asking, Young
  <2> QED
    BY <1>1, <1>2, <2>1, AskerStep
<1>3. CASE asks' = [asks EXCEPT ![a] = [step |-> "keep", spot |-> asks[a].spot, said |-> instant]] /\ Lo!Fetch(a)
  <2>1. asks[a] \in Fetching
    BY <1>3, AskKinds DEF Lo!Fetch, LookupInv
  <2> PICK n : n = [step |-> "keep", spot |-> asks[a].spot, said |-> instant]
    OBVIOUS
  <2>2. n \in Keeping /\ n.step = "keep" /\ n.said = instant
    BY <1>1, <2>1 DEF Fetching, Keeping
  <2>3. n \in Asking /\ Young(n)
    BY <1>1, <2>2, LookupsAssumption DEF Asking, Young
  <2> QED
    BY <1>1, <1>3, <2>3, AskerStep
<1> QED
  BY <1>2, <1>3 DEF Lo!Fetch, Lo!Rest

\* A token is used that lives longer than Margin, or a new one is asked for.
LEMMA TakeTokenStep == ASSUME LookupInv, NEW a \in Askers, Lo!TakeToken(a) PROVE LookupInv'
<1>1. /\ LookupTypes /\ \A b \in Askers : exchange[b] = 0
      /\ UNCHANGED <<cacheKind, instant, items, token>>
      /\ instant \in Nat \ {0} /\ token \in Nat
  BY DEF Lo!TakeToken, LookupInv, LookupTypes
<1>2. CASE /\ instant < token - Margin /\ UNCHANGED exchange
           /\ asks' = [asks EXCEPT ![a] = [step |-> "send", said |-> instant]]
  <2> PICK n : n = [step |-> "send", said |-> instant]
    OBVIOUS
  <2>1. n \in Sending /\ n.step = "send" /\ n.said = instant
    BY <1>1 DEF Sending
  <2>2. n \in Asking /\ Young(n)
    BY <1>1, <1>2, <2>1, LookupsAssumption DEF Asking, Young
  <2> QED
    BY <1>1, <1>2, <2>2, AskerStep
<1>3. CASE UNCHANGED asks /\ exchange' = [exchange EXCEPT ![a] = instant]
  <2>1. LookupTypes'
    BY <1>1, <1>3 DEF LookupTypes
  <2>2. \A b \in Askers : exchange'[b] = IF b = a THEN instant ELSE 0
    BY <1>1, <1>3 DEF LookupTypes
  <2>3. \A b \in Askers : Exchanging(b)'
    BY <1>1, <2>2, LookupsAssumption DEF Exchanging, LookupInv
  <2> QED
    BY <1>1, <1>3, <2>1, <2>3 DEF LookupInv, Young, Lo!Stocked
<1> QED
  BY <1>2, <1>3 DEF Lo!TakeToken

\* The new token lives longer than the old one: who still sends with that one may.
LEMMA ExchangedStep == ASSUME LookupInv, NEW a \in Askers, Lo!Exchanged(a) PROVE LookupInv'
<1>1. /\ LookupTypes /\ UNCHANGED <<cacheKind, instant, items>>
      /\ instant \in Nat \ {0} /\ token \in Nat /\ TokenLife \in Nat /\ exchange[a] \in Nat
      /\ exchange[a] <= instant /\ instant - exchange[a] <= Lag
      /\ token <= exchange[a] + TokenLife /\ \A b \in Askers \ {a} : exchange[b] = 0
      /\ exchange' = [exchange EXCEPT ![a] = 0]
  BY LookupsAssumption DEF Lo!Exchanged, LookupInv, LookupTypes, Exchanging
<1>2. \A b \in Askers : exchange'[b] = 0
  BY <1>1 DEF LookupTypes
<1>3. CASE UNCHANGED <<token, asks>>
  BY <1>1, <1>2, <1>3 DEF LookupInv, LookupTypes, Exchanging, Young, Lo!Stocked
<1>4. CASE /\ token' = exchange[a] + TokenLife
           /\ asks' = [asks EXCEPT ![a] = [step |-> "send", said |-> instant]]
  <2> PICK n : n = [step |-> "send", said |-> instant]
    OBVIOUS
  <2>1. n \in Sending /\ n.step = "send" /\ n.said = instant
    BY <1>1 DEF Sending
  <2>2. /\ token' \in Nat /\ token <= token' /\ token' <= instant + TokenLife
        /\ instant + Lag < token'
    BY <1>1, <1>4, LookupsAssumption
  <2>3. LookupTypes'
    BY <1>1, <1>2, <1>4, <2>1, <2>2 DEF LookupTypes, Asking
  <2>4. \A b \in Askers : Young(asks[b])'
    <3> SUFFICES ASSUME NEW b \in Askers PROVE Young(asks[b])'
      OBVIOUS
    <3>1. asks'[b] = IF b = a THEN n ELSE asks[b]
      BY <1>1, <1>4 DEF LookupTypes
    <3>2. CASE b = a
      BY <1>1, <2>1, <2>2, <3>1, <3>2, LookupsAssumption DEF Young
    <3>3. CASE b # a
      <4>1. asks[b].step = "send" => asks[b].said \in Nat
        BY <1>1, AskKinds DEF Sending
      <4>2. asks'[b] = asks[b] /\ Young(asks[b])
        BY <3>1, <3>3 DEF LookupInv
      <4> QED
        BY <1>1, <2>2, <4>1, <4>2, LookupsAssumption DEF Young
    <3> QED
      BY <3>2, <3>3
  <2> QED
    BY <1>1, <1>2, <2>2, <2>3, <2>4 DEF LookupInv, Exchanging, Lo!Stocked
<1> QED
  BY <1>3, <1>4 DEF Lo!Exchanged

\* Nobody waits longer than Lag, and nothing of what is kept changes its time.
LEMMA NextInstantStep == ASSUME LookupInv, Lo!NextInstant PROVE LookupInv'
<1>1. /\ LookupTypes /\ instant \in Nat \ {0} /\ instant' = instant + 1 /\ instant + 1 \in Nat \ {0}
      /\ UNCHANGED <<cacheKind, asks, token, exchange>> /\ token \in Nat
  BY DEF Lo!NextInstant, LookupInv, LookupTypes
<1>2. /\ items' \in [Keys -> Item]
      /\ \A k \in Keys : items'[k] # Lo!Nothing => items'[k] = items[k]
      /\ cacheKind = "memory" => items' = items
  BY <1>1 DEF Lo!NextInstant, LookupTypes, Lo!Nothing, Item
<1>3. LookupTypes'
  BY <1>1, <1>2 DEF LookupTypes
<1>4. \A a \in Askers : Young(asks[a])'
  <2> SUFFICES ASSUME NEW a \in Askers PROVE Young(asks[a])'
    OBVIOUS
  <2>1. /\ asks[a].step \in {"keep", "send"} => asks[a].said \in Nat
        /\ asks[a].step \in {"keep", "send"} => instant - asks[a].said < Lag
        /\ Young(asks[a])
    BY <1>1, AskKinds DEF Keeping, Sending, Lo!NextInstant, LookupInv
  <2> QED
    BY <1>1, <2>1, LookupsAssumption DEF Young
<1>5. \A a \in Askers : Exchanging(a)'
  <2> SUFFICES ASSUME NEW a \in Askers PROVE Exchanging(a)'
    OBVIOUS
  <2>1. exchange[a] \in Nat /\ (exchange[a] # 0 => instant - exchange[a] < Lag) /\ Exchanging(a)
    BY <1>1 DEF LookupTypes, Lo!NextInstant, LookupInv
  <2> QED
    BY <1>1, <2>1, LookupsAssumption DEF Exchanging
<1>6. token' <= instant' + TokenLife
  BY <1>1, LookupsAssumption DEF LookupInv
<1>7. (cacheKind = "memory" => Cardinality(Lo!Stocked) <= MaxItems)'
  BY <1>1, <1>2 DEF LookupInv, Lo!Stocked
<1> QED
  BY <1>1, <1>2, <1>3, <1>4, <1>5, <1>6, <1>7 DEF LookupInv

\* All of Lookups.
LEMMA LookupsStep == ASSUME LookupInv, [Lo!LookupsNext]_lookups PROVE LookupInv'
<1>1. CASE UNCHANGED lookups
  BY <1>1 DEF lookups, LookupInv, LookupTypes, Young, Exchanging, Lo!Stocked
<1> QED
  BY <1>1, LookUpStep, FetchStep, KeepStep, TakeTokenStep, ExchangedStep, NextInstantStep
     DEF Lo!LookupsNext

\* Nothing is remembered yet.
LEMMA LookupsStart == Lo!LookupsInit => LookupInv
<1> SUFFICES ASSUME Lo!LookupsInit PROVE LookupInv
  OBVIOUS
<1>1. LookupTypes
  BY DEF Lo!LookupsInit, LookupTypes, Keys, Item, Lo!Nothing, Asking
<1>2. \A a \in Askers : Young(asks[a]) /\ Exchanging(a)
  BY DEF Lo!LookupsInit, Young, Exchanging, Lo!Resting
<1>3. Lo!Stocked = {}
  BY DEF Lo!LookupsInit, Lo!Stocked
<1>4. Cardinality(Lo!Stocked) <= MaxItems
  BY <1>3, FS_EmptySet, LookupsAssumption
<1>5. token <= instant + TokenLife /\ \A k \in Keys : items[k] = Lo!Nothing
  BY LookupsAssumption DEF Lo!LookupsInit, Keys
<1> QED
  BY <1>1, <1>2, <1>4, <1>5 DEF LookupInv

\* And so it stays.
LEMMA LookupsInvariant == MarketSpec => []LookupInv
<1>1. MarketInit => LookupInv
  BY LookupsStart DEF MarketInit
<1>2. LookupInv /\ [MarketNext]_marketVars => LookupInv'
  <2> SUFFICES ASSUME LookupInv, [MarketNext]_marketVars PROVE LookupInv'
    OBVIOUS
  <2>1. UNCHANGED lookups \/ Lo!LookupsNext
    BY DEF MarketNext, marketVars, dispatch
  <2> QED
    BY <2>1, LookupsStep
<1> QED
  BY <1>1, <1>2, PTL DEF MarketSpec

\* LookupsAreFresh: nothing is told that is older than its life and the time it took to be
\* kept, the memory has an end, and no token is sent after its own (places/service.go,
\* cache.go; notification/fcm.go).
THEOREM ToldWhileFresh == MarketSpec => []LookupsAreFresh
<1>1. LookupInv => LookupsAreFresh
  <2> SUFFICES ASSUME LookupInv PROVE Lo!LookupsAreFresh
    BY DEF LookupsAreFresh
  <2>1. ASSUME NEW a \in Askers, asks[a].step = "send" PROVE instant < token
    <3>1. /\ asks[a].said \in Nat /\ instant \in Nat /\ token \in Nat
          /\ asks[a].said <= instant /\ instant - asks[a].said <= Lag /\ asks[a].said + Lag < token
      BY <2>1, AskKinds DEF LookupInv, LookupTypes, Sending, Young
    <3> QED
      BY <3>1, LookupsAssumption
  <2> QED
    BY <2>1, SameSize DEF LookupInv, Young, Lo!LookupsAreFresh
<1> QED
  BY <1>1, LookupsInvariant, PTL

-------------------------------------------------------------------------------
(* What a ride costs (Fares).                                               *)

\* The larger and the smaller of two.
LEMMA OfTwo ==
  ASSUME NEW a \in Int, NEW b \in Int
  PROVE  /\ Fa!Max({a, b}) = IF a >= b THEN a ELSE b
         /\ Fa!Min({a, b}) = IF a <= b THEN a ELSE b
<1>1. PICK m \in {a, b} : m = (IF a >= b THEN a ELSE b) /\ \A y \in {a, b} : m >= y
  OBVIOUS
<1>2. \A x \in {a, b} : (\A y \in {a, b} : x >= y) => x = m
  BY <1>1
<1>3. Fa!Max({a, b}) = m
  BY <1>1, <1>2 DEF Fa!Max
<1>4. PICK l \in {a, b} : l = (IF a <= b THEN a ELSE b) /\ \A y \in {a, b} : l <= y
  OBVIOUS
<1>5. \A x \in {a, b} : (\A y \in {a, b} : x <= y) => x = l
  BY <1>4
<1>6. Fa!Min({a, b}) = l
  BY <1>4, <1>5 DEF Fa!Min
<1> QED
  BY <1>1, <1>3, <1>4, <1>6

\* What multipliers are used.
Surges == 1000 .. 2000

\* The multiplier is used within its bounds, and one per mille more is at most that.
LEMMA ClampedIs ==
  ASSUME NEW surge \in Int
  PROVE  /\ Fa!Clamped(surge) \in Surges
         /\ Fa!Clamped(surge + 1) \in {Fa!Clamped(surge), Fa!Clamped(surge) + 1}
<1>1. \A s \in Int : Fa!Clamped(s) = IF s >= 2000 THEN 2000 ELSE IF s <= 1000 THEN 1000 ELSE s
  <2> SUFFICES ASSUME NEW s \in Int
               PROVE  Fa!Clamped(s) = IF s >= 2000 THEN 2000 ELSE IF s <= 1000 THEN 1000 ELSE s
    OBVIOUS
  <2> PICK l \in Int : l = Fa!Min({2000, s}) /\ l = IF 2000 <= s THEN 2000 ELSE s
    BY OfTwo
  <2>1. Fa!Max({1000, l}) = IF 1000 >= l THEN 1000 ELSE l
    BY OfTwo
  <2> QED
    BY <2>1 DEF Fa!Clamped
<1> QED
  BY <1>1 DEF Surges

Vehicle == {"bike", "car4", "car7"}
Way == [length : Nat, duration : Nat]

\* The three tariffs; each is dearer than the one before it in every part.
LEMMA Tariffs ==
  /\ DOMAIN Fa!DefaultTariffs = Vehicle
  /\ \A v \in Vehicle :
       LET t == Fa!DefaultTariffs[v]
       IN  /\ t.OpeningFare = t.MinFare /\ t.PlatformFeePermille \in {200, 250}
           /\ \/ v = "bike" /\ t.OpeningFare = 12000 /\ t.PerKm = 4300 /\ t.PerMinute = 300
              \/ v = "car4" /\ t.OpeningFare = 29000 /\ t.PerKm = 9500 /\ t.PerMinute = 600
              \/ v = "car7" /\ t.OpeningFare = 34000 /\ t.PerKm = 11500 /\ t.PerMinute = 700
BY DEF Vehicle, Fa!DefaultTariffs, Fa!Tariff

\* Metres beyond the opening fare, and seconds.
Metres(length) == IF length > 20000 THEN (length - 20000 + 5) \div 10 ELSE 0
Seconds(duration) == (duration + 5) \div 10

\* A metre or a second more is at most one more to pay for.
LEMMA OneMore ==
  ASSUME NEW n \in Nat
  PROVE  /\ Metres(n) \in Nat /\ Metres(n + 10) \in {Metres(n), Metres(n) + 1}
         /\ Seconds(n) \in Nat /\ Seconds(n + 10) = Seconds(n) + 1
BY DEF Metres, Seconds

\* The fare before night and demand.
LEMMA BaseIs ==
  ASSUME NEW v \in Vehicle, NEW r \in Way
  PROVE  LET t == Fa!DefaultTariffs[v]
         IN  Fa!computeBase(t, r) = t.OpeningFare + (t.PerKm * Metres(r.length) + 500) \div 1000
                                      + (t.PerMinute * Seconds(r.duration) + 30) \div 60
<1> DEFINE t == Fa!DefaultTariffs[v]
<1>1. r.length \in Nat /\ r.duration \in Nat
  BY DEF Way
<1> PICK open \in Nat, km \in {4300, 9500, 11500}, fare \in {300, 600, 700} :
       t.OpeningFare = open /\ t.PerKm = km /\ t.PerMinute = fare
  BY Tariffs
<1>2. Metres(r.length) \in Nat /\ Seconds(r.duration) \in Nat
  BY <1>1, OneMore
<1>3. \A m \in Nat : km * m >= 0 /\ fare * m >= 0 /\ km * m \in Nat /\ fare * m \in Nat
  OBVIOUS
<1>4. \A m \in Nat : /\ Fa!MulDiv(km, m, 1000) = (km * m + 500) \div 1000
                     /\ Fa!MulDiv(fare, m, 60) = (fare * m + 30) \div 60
  BY <1>3 DEF Fa!MulDiv
<1>5. /\ r.length > 20000 => Fa!Rounded(r.length - 20000) = Metres(r.length)
      /\ Fa!Rounded(r.duration) = Seconds(r.duration)
      /\ ~ (r.length > 20000) => Metres(r.length) = 0
  BY <1>1 DEF Fa!Rounded, Metres, Seconds
<1>6. (km * 0 + 500) \div 1000 = 0 /\ Fa!OpeningMeter * 10 = 20000
  BY DEF Fa!OpeningMeter
<1>7. (IF r.length > 20000 THEN Fa!MulDiv(km, Fa!Rounded(r.length - 20000), 1000) ELSE 0)
        = (km * Metres(r.length) + 500) \div 1000
  <2>1. CASE r.length > 20000
    BY <1>2, <1>4, <1>5, <2>1
  <2>2. CASE ~ (r.length > 20000)
    BY <1>5, <1>6, <2>2
  <2> QED
    BY <2>1, <2>2
<1>8. Fa!MulDiv(fare, Fa!Rounded(r.duration), 60) = (fare * Seconds(r.duration) + 30) \div 60
  BY <1>2, <1>4, <1>5
<1> QED
  BY <1>6, <1>7, <1>8 DEF Fa!computeBase

\* Up to the next thousand.
LEMMA RoundToIs ==
  ASSUME NEW x \in Nat
  PROVE  Fa!RoundTo(x, 1000) = 1000 * ((x + 999) \div 1000)
BY DEF Fa!RoundTo

\* So many per mille, to the nearest dong, and up to a round sum.
Scaled(n, s) == (n * s + 500) \div 1000
Paid(n, s) == 1000 * ((Scaled(n, s) + 999) \div 1000)

\* A part of a sum, to the nearest dong.
LEMMA PermilleIs ==
  ASSUME NEW x \in Nat, NEW rate \in Nat
  PROVE  /\ x * rate \in Nat
         /\ Fa!MulPermille(x, rate) = Scaled(x, rate)
<1>1. x * rate \in Nat /\ x * rate >= 0
  OBVIOUS
<1> QED
  BY <1>1 DEF Fa!MulPermille, Fa!MulDiv, Scaled

\* It is no less.
LEMMA ScaledAtLeast ==
  ASSUME NEW n \in Nat, NEW s \in Surges
  PROVE  Scaled(n, s) \in Nat /\ Scaled(n, s) >= n
<1> PICK p \in Nat : p = n * s
  BY DEF Surges
<1>1. p >= 1000 * n
  BY DEF Surges
<1> QED
  BY <1>1 DEF Scaled

\* Nor is the round sum.
LEMMA PaidAtLeast ==
  ASSUME NEW n \in Nat, NEW s \in Surges
  PROVE  Paid(n, s) \in Nat /\ Paid(n, s) % 1000 = 0 /\ Paid(n, s) >= n
<1> PICK x \in Nat : x = Scaled(n, s) /\ x >= n
  BY ScaledAtLeast
<1> QED
  BY DEF Paid

\* A fare that is dearer by at most 14 dong is dearer by at most one step.
LEMMA PaidForMore ==
  ASSUME NEW n \in Nat, NEW k \in Nat, NEW s \in Surges
  PROVE  /\ Paid(n + k, s) >= Paid(n, s)
         /\ k <= 14 => Paid(n + k, s) <= Paid(n, s) + 1000
         /\ k >= 5000 => Paid(n + k, s) > Paid(n, s)
<1> PICK p \in Nat, d \in Nat : p = n * s /\ d = k * s
  BY DEF Surges
<1>1. (n + k) * s = p + d
  BY DEF Surges
<1>2. /\ k <= 14 => d <= 28000
      /\ k >= 5000 => d >= 5000000
  BY DEF Surges
<1>3. /\ Paid(n, s) = 1000 * (((p + 500) \div 1000 + 999) \div 1000)
      /\ Paid(n + k, s) = 1000 * (((p + d + 500) \div 1000 + 999) \div 1000)
  BY <1>1 DEF Paid, Scaled
<1>4. Paid(n + k, s) >= Paid(n, s)
  BY <1>3
<1>5. ASSUME k <= 14 PROVE Paid(n + k, s) <= Paid(n, s) + 1000
  BY <1>2, <1>3, <1>5
<1>6. ASSUME k >= 5000 PROVE Paid(n + k, s) > Paid(n, s)
  BY <1>2, <1>3, <1>6
<1> QED
  BY <1>4, <1>5, <1>6

\* One per mille more is at most a thousandth of the fare, up to a round sum.
LEMMA PaidForSurge ==
  ASSUME NEW n \in Nat, NEW s \in Surges
  PROVE  /\ Paid(n, s + 1) >= Paid(n, s)
         /\ Paid(n, s + 1) <= Paid(n, s) + 1000 * (((n + 999) \div 1000 + 999) \div 1000)
<1> PICK p \in Nat : p = n * s
  BY DEF Surges
<1>1. n * (s + 1) = p + n
  BY DEF Surges
<1>2. /\ Paid(n, s) = 1000 * (((p + 500) \div 1000 + 999) \div 1000)
      /\ Paid(n, s + 1) = 1000 * (((p + n + 500) \div 1000 + 999) \div 1000)
  BY <1>1 DEF Paid, Scaled
<1>3. (p + n + 500) \div 1000 <= (p + 500) \div 1000 + (n + 999) \div 1000
  OBVIOUS
<1>4. PICK a \in Nat, b \in Nat, c \in Nat :
        a = (p + 500) \div 1000 /\ b = (p + n + 500) \div 1000 /\ c = (n + 999) \div 1000
  OBVIOUS
<1>5. b <= a + c /\ a <= b
  BY <1>3, <1>4
<1>6. (b + 999) \div 1000 <= (a + 999) \div 1000 + (c + 999) \div 1000
  BY <1>5
<1>7. (a + 999) \div 1000 <= (b + 999) \div 1000
  BY <1>5
<1> QED
  BY <1>2, <1>4, <1>6, <1>7

\* The base fare is at least the least fare there is, and that of its tariff.
LEMMA BaseAtLeast ==
  ASSUME NEW v \in Vehicle, NEW r \in Way
  PROVE  /\ Fa!computeBase(Fa!DefaultTariffs[v], r) \in Nat
         /\ Fa!computeBase(Fa!DefaultTariffs[v], r) >= 12000
         /\ Fa!computeBase(Fa!DefaultTariffs[v], r) >= Fa!DefaultTariffs[v].MinFare
<1> DEFINE t == Fa!DefaultTariffs[v]
<1> PICK open \in Nat, km \in {4300, 9500, 11500}, fare \in {300, 600, 700} :
       /\ t.OpeningFare = open /\ t.PerKm = km /\ t.PerMinute = fare
       /\ t.MinFare = open /\ open >= 12000
  BY Tariffs
<1>1. Metres(r.length) \in Nat /\ Seconds(r.duration) \in Nat
  BY OneMore DEF Way
<1>2. Fa!computeBase(t, r) = open + (km * Metres(r.length) + 500) \div 1000
                               + (fare * Seconds(r.duration) + 30) \div 60
  BY BaseIs
<1>3. PICK p \in Nat, q \in Nat : p = km * Metres(r.length) /\ q = fare * Seconds(r.duration)
  BY <1>1
<1> QED
  BY <1>2, <1>3

\* It is at most 12 dong more for a metre or a second.
LEMMA BaseRises ==
  ASSUME NEW v \in Vehicle, NEW r \in Way, NEW w \in Way,
         \/ w.length = r.length + 10 /\ w.duration = r.duration
         \/ w.length = r.length /\ w.duration = r.duration + 10
  PROVE  Fa!computeBase(Fa!DefaultTariffs[v], w)
           \in Fa!computeBase(Fa!DefaultTariffs[v], r) .. Fa!computeBase(Fa!DefaultTariffs[v], r) + 12
<1> DEFINE t == Fa!DefaultTariffs[v]
<1> PICK open \in Nat, km \in {4300, 9500, 11500}, fare \in {300, 600, 700} :
       /\ t.OpeningFare = open /\ t.PerKm = km /\ t.PerMinute = fare
       /\ t.MinFare = open /\ open >= 12000
  BY Tariffs
<1>1. r.length \in Nat /\ r.duration \in Nat
  BY DEF Way
<1>2. PICK m \in Nat, s \in Nat, more \in Nat :
        /\ more \in {m, m + 1} /\ m = Metres(r.length) /\ s = Seconds(r.duration)
        /\ more = Metres(r.length + 10) /\ Seconds(r.duration + 10) = s + 1
  <2>1. /\ Metres(r.length) \in Nat
        /\ Metres(r.length + 10) \in {Metres(r.length), Metres(r.length) + 1}
    BY <1>1, OneMore
  <2>2. Seconds(r.duration) \in Nat /\ Seconds(r.duration + 10) = Seconds(r.duration) + 1
    BY <1>1, OneMore
  <2> QED
    BY <2>1, <2>2
<1>3. Fa!computeBase(t, r) = open + (km * m + 500) \div 1000 + (fare * s + 30) \div 60
  BY <1>2, BaseIs
<1>4. PICK p \in Nat, q \in Nat : p = km * m /\ q = fare * s
  OBVIOUS
<1>5. km * more \in {p, p + km} /\ fare * (s + 1) = q + fare
  BY <1>2, <1>4
<1>6. (km * more + 500) \div 1000 \in (p + 500) \div 1000 .. (p + 500) \div 1000 + 12
  BY <1>5
<1>7. (fare * (s + 1) + 30) \div 60 \in (q + 30) \div 60 .. (q + 30) \div 60 + 12
  BY <1>5
<1>8. CASE w.length = r.length + 10 /\ w.duration = r.duration
  <2>1. Fa!computeBase(t, w) = open + (km * more + 500) \div 1000 + (fare * s + 30) \div 60
    BY <1>2, <1>8, BaseIs
  <2> QED
    BY <1>3, <1>4, <1>6, <2>1
<1>9. CASE w.length = r.length /\ w.duration = r.duration + 10
  <2>1. Fa!computeBase(t, w) = open + (km * m + 500) \div 1000 + (fare * (s + 1) + 30) \div 60
    BY <1>2, <1>9, BaseIs
  <2> QED
    BY <1>3, <1>4, <1>7, <2>1
<1> QED
  BY <1>8, <1>9

\* It is night exactly in the hours that are counted on from the first to the last.
LEMMA NightIs ==
  ASSUME NEW hour \in 0 .. 23, NEW from \in 0 .. 23, NEW to \in 0 .. 23
  PROVE  Fa!isNight(hour, from, to) <=> (hour + 7) % 24 \in Fa!Nights(<<from, to>>)
<1> PICK h \in 0 .. 23, n \in 0 .. 23 : h = (hour + 7) % 24 /\ n = (to - from) % 24
  OBVIOUS
<1>1. Fa!Nights(<<from, to>>) = {(from + k) % 24 : k \in 0 .. n - 1}
  BY DEF Fa!Nights
<1>2. n = IF to >= from THEN to - from ELSE to - from + 24
  OBVIOUS
<1>3. \A k \in 0 .. n - 1 : (from + k) % 24 = IF from + k < 24 THEN from + k ELSE from + k - 24
  OBVIOUS
<1>4. ASSUME Fa!isNight(hour, from, to)
      PROVE  h \in {(from + k) % 24 : k \in 0 .. n - 1}
  <2> DEFINE k == IF h >= from THEN h - from ELSE h - from + 24
  <2>2. k \in 0 .. n - 1
    BY <1>2, <1>4 DEF Fa!isNight
  <2>3. (from + k) % 24 = h
    BY <1>3, <2>2
  <2> QED
    BY <2>2, <2>3
<1>5. ASSUME NEW k \in 0 .. n - 1, h = (from + k) % 24
      PROVE  Fa!isNight(hour, from, to)
  BY <1>2, <1>3, <1>5 DEF Fa!isNight
<1> QED
  BY <1>1, <1>4, <1>5

\* The fee for the night.
Night(base, hour, dusk) ==
  IF Fa!isNight(hour, dusk[1], dusk[2]) THEN (base * 100 + 500) \div 1000 ELSE 0

\* The parts of a quote.
LEMMA EstimateIs ==
  ASSUME NEW v \in Vehicle, NEW r \in Way, NEW hour, NEW dusk, NEW surge \in Int
  PROVE  LET t == Fa!DefaultTariffs[v]
             q == Fa!Estimate(v, r, hour, dusk, surge)
             n == q.BaseFare + q.NightFee
             paid == Paid(n, Fa!Clamped(surge))
         IN  /\ q.BaseFare = Fa!computeBase(t, r)
             /\ q.NightFee = Night(q.BaseFare, hour, dusk)
             /\ n \in Nat /\ n >= t.MinFare /\ n >= q.BaseFare
             /\ q.Total = paid /\ paid \in Nat
             /\ q.PlatformFee = Scaled(paid, t.PlatformFeePermille)
             /\ q.DriverEarn = paid - q.PlatformFee
<1> DEFINE t == Fa!DefaultTariffs[v]
           q == Fa!Estimate(v, r, hour, dusk, surge)
<1> PICK base \in Nat, least \in Nat, rate \in Nat :
       /\ base = Fa!computeBase(t, r) /\ least = t.MinFare /\ rate = t.PlatformFeePermille
       /\ base >= least
  <2>1. /\ t.MinFare \in Nat /\ t.PlatformFeePermille \in Nat
    BY Tariffs
  <2>2. /\ Fa!computeBase(t, r) \in Nat /\ Fa!computeBase(t, r) >= t.MinFare
    BY BaseAtLeast
  <2> HIDE DEF t
  <2> QED
    BY <2>1, <2>2
<1> PICK s \in Surges : s = Fa!Clamped(surge)
  BY ClampedIs
<1> PICK night \in Nat : night = Night(base, hour, dusk)
  BY DEF Night
<1>1. Fa!MulPermille(base, Fa!NightSurchargePermille) = (base * 100 + 500) \div 1000
  BY PermilleIs DEF Fa!NightSurchargePermille, Scaled
<1>2. (IF Fa!isNight(hour, dusk[1], dusk[2])
       THEN Fa!MulPermille(base, Fa!NightSurchargePermille) ELSE 0) = night
  BY <1>1 DEF Night
<1> PICK n \in Nat : n = base + night
  OBVIOUS
<1>3. PICK x \in Nat : x = Scaled(n, s) /\ x >= n
  <2>1. Scaled(n, s) \in Nat /\ Scaled(n, s) >= n
    BY ScaledAtLeast
  <2> QED
    BY <2>1
<1>4. Fa!MulPermille(n, Fa!Clamped(surge)) = x
  <2>1. s \in Nat
    BY DEF Surges
  <2>2. Fa!MulPermille(n, s) = Scaled(n, s)
    BY <2>1, PermilleIs
  <2> QED
    BY <1>3, <2>2
<1>5. Fa!Max({least, x}) = x
  <2>1. least \in Int /\ x \in Int /\ x >= least
    BY <1>3
  <2>2. Fa!Max({least, x}) = IF least >= x THEN least ELSE x
    BY <2>1, OfTwo
  <2> QED
    BY <2>1, <2>2
<1>6. Fa!RoundTo(Fa!Max({t.MinFare, Fa!MulPermille(n, Fa!Clamped(surge))}), 1000)
        = Paid(n, s) /\ Paid(n, s) \in Nat
  <2>1. Paid(n, s) \in Nat
    BY PaidAtLeast
  <2>2. Fa!RoundTo(x, 1000) = 1000 * ((x + 999) \div 1000)
    BY RoundToIs
  <2>3. Paid(n, s) = 1000 * ((x + 999) \div 1000)
    BY <1>3 DEF Paid
  <2> DEFINE up(z) == Fa!RoundTo(z, 1000)
  <2>4. up(x) = Paid(n, s)
    BY <2>2, <2>3
  <2>5. t.MinFare = least
    OBVIOUS
  <2> HIDE DEF up, t
  <2>6. Fa!Max({t.MinFare, Fa!MulPermille(n, Fa!Clamped(surge))}) = x
    BY <1>4, <1>5, <2>5
  <2>7. up(Fa!Max({t.MinFare, Fa!MulPermille(n, Fa!Clamped(surge))})) = Paid(n, s)
    BY <2>4, <2>6
  <2> QED
    BY <2>1, <2>7 DEF up
<1>7. Fa!MulPermille(Paid(n, s), rate) = Scaled(Paid(n, s), rate)
  BY <1>6, PermilleIs
<1>8. q = [BaseFare |-> base, NightFee |-> night, SurgePermille |-> s, Total |-> Paid(n, s),
           PlatformFee |-> Scaled(Paid(n, s), rate),
           DriverEarn |-> Paid(n, s) - Scaled(Paid(n, s), rate)]
  <2> DEFINE total == Fa!RoundTo(Fa!Max({t.MinFare, Fa!MulPermille(base + night, Fa!Clamped(surge))}), 1000)
             fee == Fa!MulPermille(total, t.PlatformFeePermille)
  <2>1. q = [BaseFare |-> base, NightFee |-> night, SurgePermille |-> Fa!Clamped(surge),
             Total |-> total, PlatformFee |-> fee, DriverEarn |-> total - fee]
    <3> DEFINE dark == IF Fa!isNight(hour, dusk[1], dusk[2])
                       THEN Fa!MulPermille(Fa!computeBase(t, r), Fa!NightSurchargePermille) ELSE 0
               sum(b, f) == Fa!RoundTo(Fa!Max({t.MinFare, Fa!MulPermille(b + f, Fa!Clamped(surge))}), 1000)
               parts(b, f) == [BaseFare |-> b, NightFee |-> f, SurgePermille |-> Fa!Clamped(surge),
                               Total |-> sum(b, f),
                               PlatformFee |-> Fa!MulPermille(sum(b, f), t.PlatformFeePermille),
                               DriverEarn |-> sum(b, f) - Fa!MulPermille(sum(b, f), t.PlatformFeePermille)]
    <3>1. q = parts(Fa!computeBase(t, r), dark)
      BY DEF Fa!Estimate
    <3>2. Fa!computeBase(t, r) = base /\ dark = night
      BY <1>2
    <3> HIDE DEF dark, parts
    <3>3. q = parts(base, night)
      BY <3>1, <3>2
    <3> QED
      BY <3>3 DEF parts
  <2>2. total = Paid(n, s)
    <3> DEFINE sum(k) == Fa!RoundTo(Fa!Max({t.MinFare, Fa!MulPermille(k, Fa!Clamped(surge))}), 1000)
    <3>1. total = sum(base + night)
      OBVIOUS
    <3>2. sum(n) = Paid(n, s)
      BY <1>6
    <3> HIDE DEF sum, total
    <3>3. base + night = n
      OBVIOUS
    <3> QED
      BY <3>1, <3>2, <3>3
  <2>3. fee = Scaled(Paid(n, s), rate)
    <3> HIDE DEF total
    <3>1. Fa!MulPermille(total, t.PlatformFeePermille) = Fa!MulPermille(Paid(n, s), rate)
      BY <2>2
    <3> QED
      BY <1>7, <3>1
  <2> HIDE DEF total, fee
  <2> QED
    BY <2>1, <2>2, <2>3, Zenon
<1>9. /\ q.BaseFare = base /\ q.NightFee = night /\ q.Total = Paid(n, s)
      /\ q.PlatformFee = Scaled(Paid(n, s), rate)
      /\ q.DriverEarn = Paid(n, s) - Scaled(Paid(n, s), rate)
  BY <1>8
<1> HIDE DEF q, t
<1>10. n >= least /\ n >= base
  OBVIOUS
<1> QED
  BY <1>6, <1>9, <1>10 DEF t, q

\* A dearer fare is dearer, or as dear, for the rider, the driver and the platform.
LEMMA Shares ==
  ASSUME NEW x \in Nat, NEW y \in Nat, NEW rate \in {200, 250},
         x % 1000 = 0, y % 1000 = 0, x <= y
  PROVE  /\ Scaled(x, rate) <= Scaled(y, rate)
         /\ x - Scaled(x, rate) <= y - Scaled(y, rate)
         /\ x > 0 => /\ 0 < Scaled(x, rate)
                     /\ 0 < x - Scaled(x, rate)
<1> PICK a \in Nat, b \in Nat : x = 1000 * a /\ y = 1000 * b
  <2>1. x = 1000 * (x \div 1000) /\ y = 1000 * (y \div 1000)
    OBVIOUS
  <2> QED
    BY <2>1
<1>1. Scaled(x, rate) = a * rate /\ Scaled(y, rate) = b * rate
  <2>1. CASE rate = 200
    BY <2>1 DEF Scaled
  <2>2. CASE rate = 250
    BY <2>2 DEF Scaled
  <2> QED
    BY <2>1, <2>2
<1> QED
  BY <1>1

\* At most 12 of one and at most 2 of the other.
LEMMA AtMostFourteen ==
  ASSUME NEW a \in Nat, NEW b \in Nat, NEW x \in Nat, NEW y \in Nat,
         b >= a, b <= a + 12, y >= x, y <= x + 2
  PROVE  b + y - (a + x) \in 0 .. 14
OBVIOUS

\* A dearer sum before demand makes a quote that follows.
LEMMA DearerFollows ==
  ASSUME NEW v \in Vehicle, NEW r \in Way, NEW w \in Way, NEW hour, NEW dusk,
         NEW surge \in Int,
         Fa!computeBase(Fa!DefaultTariffs[v], w)
           \in Fa!computeBase(Fa!DefaultTariffs[v], r) .. Fa!computeBase(Fa!DefaultTariffs[v], r) + 12
  PROVE  Fa!Follows(Fa!Estimate(v, w, hour, dusk, surge), Fa!Estimate(v, r, hour, dusk, surge), 1000)
<1> DEFINE t == Fa!DefaultTariffs[v]
           less == Fa!Estimate(v, r, hour, dusk, surge)
           more == Fa!Estimate(v, w, hour, dusk, surge)
<1> PICK s \in Surges : s = Fa!Clamped(surge)
  BY ClampedIs
<1> PICK rate \in {200, 250} : rate = t.PlatformFeePermille
  BY Tariffs
<1> PICK a \in Nat : a = Fa!computeBase(t, r)
  BY BaseAtLeast
<1> PICK b \in Nat : b = Fa!computeBase(t, w) /\ b >= a /\ b <= a + 12
  <2>1. Fa!computeBase(t, w) \in a .. a + 12
    OBVIOUS
  <2>2. Fa!computeBase(t, w) \in Nat
    BY BaseAtLeast
  <2> HIDE DEF t
  <2> QED
    BY <2>1, <2>2
<1>1. Night(a, hour, dusk) \in Nat /\ Night(b, hour, dusk) \in Night(a, hour, dusk) .. Night(a, hour, dusk) + 2
  BY DEF Night
<1> PICK n \in Nat, k \in 0 .. 14 : n = a + Night(a, hour, dusk) /\ n + k = b + Night(b, hour, dusk)
  <2>1. b + Night(b, hour, dusk) - (a + Night(a, hour, dusk)) \in 0 .. 14
    <3>1. PICK na \in Nat, nb \in Nat : na = Night(a, hour, dusk) /\ nb = Night(b, hour, dusk)
                                         /\ nb >= na /\ nb <= na + 2
      BY <1>1
    <3> HIDE DEF less, more, t
    <3> QED
      BY <3>1, AtMostFourteen
  <2> QED
    BY <1>1, <2>1
<1>2. PICK x \in Nat, y \in Nat :
        /\ x = Paid(n, s) /\ y = Paid(n + k, s) /\ x <= y /\ y <= x + 1000
        /\ x % 1000 = 0 /\ y % 1000 = 0
  <2>1. Paid(n, s) \in Nat /\ Paid(n, s) % 1000 = 0
    BY PaidAtLeast
  <2>2. n + k \in Nat /\ k \in Nat /\ k <= 14
    OBVIOUS
  <2>3. Paid(n + k, s) \in Nat /\ Paid(n + k, s) % 1000 = 0
    BY <2>2, PaidAtLeast
  <2>4. Paid(n, s) <= Paid(n + k, s) /\ Paid(n + k, s) <= Paid(n, s) + 1000
    BY <2>2, PaidForMore
  <2> QED
    BY <2>1, <2>3, <2>4
<1>3. /\ less.Total = x /\ less.PlatformFee = Scaled(x, rate)
      /\ less.DriverEarn = x - Scaled(x, rate)
  BY <1>2, EstimateIs
<1>4. /\ more.Total = y /\ more.PlatformFee = Scaled(y, rate)
      /\ more.DriverEarn = y - Scaled(y, rate)
  BY <1>2, EstimateIs
<1>5. Fa!RoundTo(1000, 1000) = 1000
  BY DEF Fa!RoundTo
<1>6. y \in x .. x + 1000
  BY <1>2
<1> HIDE DEF less, more
<1>7. Fa!Follows(more, less, 1000)
  BY <1>2, <1>3, <1>4, <1>5, <1>6, Shares DEF Fa!Follows
<1> QED
  BY <1>7 DEF less, more

\* One per mille more makes a quote that follows.
LEMMA SurgeFollows ==
  ASSUME NEW v \in Vehicle, NEW r \in Way, NEW hour, NEW dusk, NEW surge \in Int
  PROVE  LET q == Fa!Estimate(v, r, hour, dusk, surge)
         IN  Fa!Follows(Fa!Estimate(v, r, hour, dusk, surge + 1), q,
                        (q.BaseFare + q.NightFee + 999) \div 1000)
<1> DEFINE t == Fa!DefaultTariffs[v]
           less == Fa!Estimate(v, r, hour, dusk, surge)
           more == Fa!Estimate(v, r, hour, dusk, surge + 1)
<1>1. PICK rate \in {200, 250} : rate = t.PlatformFeePermille
  BY Tariffs
<1>2. PICK s \in Surges, u \in Surges :
        s = Fa!Clamped(surge) /\ u = Fa!Clamped(surge + 1) /\ u \in {s, s + 1}
  <2>1. Fa!Clamped(surge) \in Surges /\ surge + 1 \in Int
    BY ClampedIs
  <2>2. Fa!Clamped(surge + 1) \in Surges
    BY <2>1, ClampedIs
  <2>3. Fa!Clamped(surge + 1) \in {Fa!Clamped(surge), Fa!Clamped(surge) + 1}
    BY ClampedIs
  <2> QED
    BY <2>1, <2>2, <2>3
<1>3. /\ more.BaseFare = less.BaseFare /\ more.NightFee = less.NightFee
      /\ less.BaseFare + less.NightFee \in Nat
  <2>1. surge + 1 \in Int
    OBVIOUS
  <2>2. /\ more.BaseFare = Fa!computeBase(t, r)
        /\ more.NightFee = Night(more.BaseFare, hour, dusk)
    BY <2>1, EstimateIs
  <2>3. /\ less.BaseFare = Fa!computeBase(t, r)
        /\ less.NightFee = Night(less.BaseFare, hour, dusk)
        /\ less.BaseFare + less.NightFee \in Nat
    BY EstimateIs
  <2> HIDE DEF less, more, t
  <2> QED
    BY <2>2, <2>3
<1>4. PICK n \in Nat : n = less.BaseFare + less.NightFee
  BY <1>3
<1>5. /\ less.Total = Paid(n, s) /\ less.PlatformFee = Scaled(Paid(n, s), rate)
      /\ less.DriverEarn = Paid(n, s) - Scaled(Paid(n, s), rate)
  BY <1>1, <1>2, <1>4, EstimateIs
<1>6. /\ more.Total = Paid(n, u) /\ more.PlatformFee = Scaled(Paid(n, u), rate)
      /\ more.DriverEarn = Paid(n, u) - Scaled(Paid(n, u), rate)
  <2>1. surge + 1 \in Int
    OBVIOUS
  <2>2. more.BaseFare + more.NightFee = n
    <3> HIDE DEF less, more
    <3> QED
      BY <1>3, <1>4
  <2> QED
    BY <1>1, <1>2, <2>1, <2>2, EstimateIs
<1> HIDE DEF less, more, t
<1>7. PICK x \in Nat, y \in Nat, rise \in Nat :
        /\ x = Paid(n, s) /\ y = Paid(n, u) /\ rise = (n + 999) \div 1000
        /\ x % 1000 = 0 /\ y % 1000 = 0
  <2>1. Paid(n, s) \in Nat /\ Paid(n, s) % 1000 = 0
    BY PaidAtLeast
  <2>2. Paid(n, u) \in Nat /\ Paid(n, u) % 1000 = 0
    BY PaidAtLeast
  <2> QED
    BY <2>1, <2>2
<1>8. Fa!RoundTo(rise, 1000) = 1000 * ((rise + 999) \div 1000)
  BY RoundToIs
<1>9. x <= y /\ y <= x + 1000 * ((rise + 999) \div 1000)
  <2>1. CASE u = s
    <3>1. x = y
      BY <1>7, <2>1
    <3> QED
      BY <3>1
  <2>2. CASE u = s + 1
    <3>1. /\ Paid(n, s + 1) >= Paid(n, s)
          /\ Paid(n, s + 1) <= Paid(n, s) + 1000 * (((n + 999) \div 1000 + 999) \div 1000)
      BY PaidForSurge
    <3> DEFINE jump == 1000 * (((n + 999) \div 1000 + 999) \div 1000)
    <3>2. jump = 1000 * ((rise + 999) \div 1000)
      BY <1>7
    <3>3. Paid(n, s + 1) >= Paid(n, s) /\ Paid(n, s + 1) <= Paid(n, s) + jump
      BY <3>1
    <3> HIDE DEF jump
    <3>4. Paid(n, s + 1) = y /\ Paid(n, s) = x
      BY <1>7, <2>2
    <3>5. y >= x /\ y <= x + jump
      BY <3>3, <3>4
    <3> QED
      BY <3>2, <3>5
  <2> QED
    BY <1>2, <2>1, <2>2
<1>10. /\ Scaled(x, rate) <= Scaled(y, rate)
       /\ x - Scaled(x, rate) <= y - Scaled(y, rate)
  BY <1>7, <1>9, Shares
<1>11. y \in x .. x + Fa!RoundTo(rise, 1000)
  BY <1>8, <1>9
<1>12. Scaled(x, rate) \in Nat /\ Scaled(y, rate) \in Nat
  BY DEF Scaled
<1>13. /\ less.Total = x /\ less.PlatformFee = Scaled(x, rate) /\ less.DriverEarn = x - Scaled(x, rate)
       /\ more.Total = y /\ more.PlatformFee = Scaled(y, rate) /\ more.DriverEarn = y - Scaled(y, rate)
       /\ rise = (less.BaseFare + less.NightFee + 999) \div 1000
  BY <1>4, <1>5, <1>6, <1>7
<1>14. Fa!Follows(more, less, rise)
  BY <1>10, <1>11, <1>12, <1>13 DEF Fa!Follows
<1> QED
  BY <1>13, <1>14 DEF less, more

\* A larger car is dearer by its opening fare at least.
LEMMA LargerIsDearer ==
  ASSUME NEW v \in Vehicle, NEW w \in Vehicle, NEW r \in Way, NEW hour, NEW dusk,
         NEW surge \in Int, <<v, w>> \in {<<"bike", "car4">>, <<"car4", "car7">>}
  PROVE  Fa!Estimate(w, r, hour, dusk, surge).Total > Fa!Estimate(v, r, hour, dusk, surge).Total
<1> DEFINE less == Fa!Estimate(v, r, hour, dusk, surge)
           more == Fa!Estimate(w, r, hour, dusk, surge)
<1>1. PICK s \in Surges : s = Fa!Clamped(surge)
  BY ClampedIs
<1>2. PICK a \in Nat, b \in Nat :
        /\ a = Fa!computeBase(Fa!DefaultTariffs[v], r) /\ b = Fa!computeBase(Fa!DefaultTariffs[w], r)
        /\ b >= a + 5000
  <2>1. PICK m \in Nat, sec \in Nat : m = Metres(r.length) /\ sec = Seconds(r.duration)
    BY OneMore DEF Way
  <2>2. /\ Fa!computeBase(Fa!DefaultTariffs[v], r) = Fa!DefaultTariffs[v].OpeningFare
             + (Fa!DefaultTariffs[v].PerKm * m + 500) \div 1000
             + (Fa!DefaultTariffs[v].PerMinute * sec + 30) \div 60
        /\ Fa!computeBase(Fa!DefaultTariffs[w], r) = Fa!DefaultTariffs[w].OpeningFare
             + (Fa!DefaultTariffs[w].PerKm * m + 500) \div 1000
             + (Fa!DefaultTariffs[w].PerMinute * sec + 30) \div 60
    BY <2>1, BaseIs
  <2>3. CASE v = "bike" /\ w = "car4"
    <3>1. /\ Fa!DefaultTariffs[v].OpeningFare = 12000 /\ Fa!DefaultTariffs[v].PerKm = 4300
          /\ Fa!DefaultTariffs[v].PerMinute = 300
          /\ Fa!DefaultTariffs[w].OpeningFare = 29000 /\ Fa!DefaultTariffs[w].PerKm = 9500
          /\ Fa!DefaultTariffs[w].PerMinute = 600
      BY <2>3, Tariffs
    <3> QED
      BY <2>2, <3>1
  <2>4. CASE v = "car4" /\ w = "car7"
    <3>1. /\ Fa!DefaultTariffs[v].OpeningFare = 29000 /\ Fa!DefaultTariffs[v].PerKm = 9500
          /\ Fa!DefaultTariffs[v].PerMinute = 600
          /\ Fa!DefaultTariffs[w].OpeningFare = 34000 /\ Fa!DefaultTariffs[w].PerKm = 11500
          /\ Fa!DefaultTariffs[w].PerMinute = 700
      BY <2>4, Tariffs
    <3>2. /\ (11500 * m + 500) \div 1000 >= (9500 * m + 500) \div 1000
          /\ (700 * sec + 30) \div 60 >= (600 * sec + 30) \div 60
          /\ (9500 * m + 500) \div 1000 \in Nat /\ (600 * sec + 30) \div 60 \in Nat
      OBVIOUS
    <3> QED
      BY <2>2, <3>1, <3>2
  <2> QED
    BY <2>3, <2>4
<1>3. PICK na \in Nat, nb \in Nat : na = Night(a, hour, dusk) /\ nb = Night(b, hour, dusk)
                                     /\ nb >= na
  <2>1. Night(a, hour, dusk) \in Nat /\ Night(b, hour, dusk) \in Nat
        /\ Night(b, hour, dusk) >= Night(a, hour, dusk)
    BY <1>2 DEF Night
  <2> QED
    BY <2>1
<1>4. PICK n \in Nat, k \in Nat : n = a + na /\ n + k = b + nb /\ k >= 5000
  <2>1. b + nb - (a + na) \in Nat /\ b + nb - (a + na) >= 5000
    BY <1>2, <1>3
  <2> QED
    BY <2>1
<1>5. less.Total = Paid(n, s) /\ more.Total = Paid(n + k, s)
  <2>1. /\ less.BaseFare = a /\ less.NightFee = na
        /\ more.BaseFare = b /\ more.NightFee = nb
    BY <1>2, <1>3, EstimateIs
  <2>2. /\ less.Total = Paid(less.BaseFare + less.NightFee, s)
        /\ more.Total = Paid(more.BaseFare + more.NightFee, s)
    BY <1>1, EstimateIs
  <2> HIDE DEF less, more
  <2> QED
    BY <1>4, <2>1, <2>2
<1>6. Paid(n + k, s) > Paid(n, s)
  <2>1. k >= 5000 => Paid(n + k, s) > Paid(n, s)
    BY PaidForMore
  <2> QED
    BY <1>4, <2>1
<1> HIDE DEF less, more
<1>7. more.Total > less.Total
  BY <1>5, <1>6
<1> QED
  BY <1>7 DEF less, more

\* A quote is made from a way, an hour and a dusk of the day, and a multiplier.
FareInv ==
  quote = Fa!NoQuote \/
  \E v \in Vehicle, r \in Way, hour \in 0 .. 23, from \in 0 .. 23, to \in 0 .. 23, surge \in Int :
    quote = [vehicle |-> v, route |-> r, hour |-> hour, window |-> <<from, to>>, surge |-> surge,
             is |-> Fa!Estimate(v, r, hour, <<from, to>>, surge)]

\* Such a quote is sound.
LEMMA FareOfQuote ==
  ASSUME FareInv
  PROVE  Fa!FareIsSound
<1> SUFFICES ASSUME quote # Fa!NoQuote
             PROVE  Fa!FareIsSound
  BY DEF Fa!FareIsSound
<1>1. PICK v \in Vehicle, r \in Way, hour \in 0 .. 23, from \in 0 .. 23, to \in 0 .. 23, surge \in Int :
        quote = [vehicle |-> v, route |-> r, hour |-> hour, window |-> <<from, to>>, surge |-> surge,
                 is |-> Fa!Estimate(v, r, hour, <<from, to>>, surge)]
  BY DEF FareInv
<1> DEFINE t == Fa!DefaultTariffs[v]
           q == Fa!Estimate(v, r, hour, <<from, to>>, surge)
           longer == [r EXCEPT !.length = @ + 10]
           slower == [r EXCEPT !.duration = @ + 10]
           n == q.BaseFare + q.NightFee
<1>2. /\ quote.vehicle = v /\ quote.route = r /\ quote.hour = hour
      /\ quote.window = <<from, to>> /\ quote.surge = surge /\ quote.is = q
  BY <1>1
<1>3. /\ longer \in Way /\ longer.length = r.length + 10 /\ longer.duration = r.duration
      /\ slower \in Way /\ slower.length = r.length /\ slower.duration = r.duration + 10
  BY DEF Way
<1>4. PICK s \in Surges : s = Fa!Clamped(surge)
  BY ClampedIs
<1>5. PICK rate \in {200, 250} : rate = t.PlatformFeePermille
  BY Tariffs
<1>6. /\ q.BaseFare = Fa!computeBase(t, r) /\ q.NightFee = Night(q.BaseFare, hour, <<from, to>>)
      /\ n \in Nat /\ n >= t.MinFare /\ q.Total = Paid(n, s)
      /\ q.PlatformFee = Scaled(q.Total, rate) /\ q.DriverEarn = q.Total - Scaled(q.Total, rate)
  BY <1>4, <1>5, EstimateIs
<1>7. q.BaseFare \in Nat /\ q.BaseFare >= 12000 /\ t.MinFare \in Nat /\ t.MinFare > 0
  <2>1. Fa!computeBase(t, r) \in Nat /\ Fa!computeBase(t, r) >= 12000
    BY BaseAtLeast
  <2>2. t.MinFare \in Nat /\ t.MinFare > 0
    BY Tariffs
  <2> HIDE DEF q, t
  <2> QED
    BY <1>6, <2>1, <2>2
<1>8. q.Total \in Nat /\ q.Total % 1000 = 0 /\ q.Total >= n
  <2> HIDE DEF q, n
  <2>1. Paid(n, s) \in Nat /\ Paid(n, s) % 1000 = 0 /\ Paid(n, s) >= n
    BY <1>6, PaidAtLeast
  <2> QED
    BY <1>6, <2>1
<1>9. /\ q.Total % 1000 = 0 /\ q.Total >= t.MinFare
      /\ q.PlatformFee + q.DriverEarn = q.Total /\ 0 < q.PlatformFee /\ 0 < q.DriverEarn
  <2> HIDE DEF q, n, t
  <2>1. /\ 0 < Scaled(q.Total, rate) /\ 0 < q.Total - Scaled(q.Total, rate)
        /\ Scaled(q.Total, rate) \in Nat
    <3>1. q.Total > 0
      BY <1>6, <1>7, <1>8
    <3>2. Scaled(q.Total, rate) \in Nat
      BY <1>8 DEF Scaled
    <3> QED
      BY <1>8, <3>1, <3>2, Shares
  <2> QED
    BY <1>6, <1>7, <1>8, <2>1
<1>10. (q.NightFee > 0) = ((hour + 7) % 24 \in Fa!Nights(<<from, to>>))
  <2>1. Fa!isNight(hour, from, to) <=> (hour + 7) % 24 \in Fa!Nights(<<from, to>>)
    BY NightIs
  <2>2. q.NightFee = IF Fa!isNight(hour, from, to) THEN (q.BaseFare * 100 + 500) \div 1000 ELSE 0
    BY <1>6 DEF Night
  <2> HIDE DEF q
  <2>3. (q.NightFee > 0) <=> Fa!isNight(hour, from, to)
    BY <1>7, <2>2
  <2> QED
    BY <2>1, <2>3
<1>11. Fa!Follows(Fa!With(quote, longer, surge), q, 1000)
  <2>1. Fa!computeBase(t, longer) \in Fa!computeBase(t, r) .. Fa!computeBase(t, r) + 12
    <3> HIDE DEF q, n, longer, slower
    <3> QED
      BY <1>3, BaseRises
  <2>2. Fa!Follows(Fa!Estimate(v, longer, hour, <<from, to>>, surge), q, 1000)
    BY <1>3, <2>1, DearerFollows
  <2> QED
    BY <1>2, <2>2 DEF Fa!With
<1>12. Fa!Follows(Fa!With(quote, slower, surge), q, 1000)
  <2>1. Fa!computeBase(t, slower) \in Fa!computeBase(t, r) .. Fa!computeBase(t, r) + 12
    <3> HIDE DEF q, n, longer, slower
    <3> QED
      BY <1>3, BaseRises
  <2>2. Fa!Follows(Fa!Estimate(v, slower, hour, <<from, to>>, surge), q, 1000)
    BY <1>3, <2>1, DearerFollows
  <2> QED
    BY <1>2, <2>2 DEF Fa!With
<1>13. Fa!Follows(Fa!With(quote, r, surge + 1), q, (q.BaseFare + q.NightFee + 999) \div 1000)
  BY <1>2, SurgeFollows DEF Fa!With
<1>14. v # "car7" =>
         Fa!Estimate(IF v = "bike" THEN "car4" ELSE "car7", r, hour, <<from, to>>, surge).Total > q.Total
  <2>1. CASE v = "bike"
    BY <2>1, LargerIsDearer DEF Vehicle
  <2>2. CASE v = "car4"
    BY <2>2, LargerIsDearer DEF Vehicle
  <2> QED
    BY <2>1, <2>2 DEF Vehicle
<1> HIDE DEF q
<1> QED
  BY <1>2, <1>9, <1>10, <1>11, <1>12, <1>13, <1>14 DEF Fa!FareIsSound

\* The parts that quote does not belong to leave it alone.
LEMMA FareStep ==
  ASSUME FareInv, [MarketNext]_marketVars
  PROVE  FareInv'
<1>1. CASE Fa!FaresNext
  <2>1. PICK v \in DOMAIN Fa!DefaultTariffs, osrm \in BOOLEAN, length \in Lengths,
             duration \in Durations, hour \in Hours, w \in NightStarts \X NightEnds, surge \in Multipliers :
               Fa!EstimateOne(v, osrm, length, duration, hour, w, surge)
    BY <1>1 DEF Fa!FaresNext
  <2>2. PICK r \in Way : r = IF osrm THEN [length |-> length, duration |-> duration]
                             ELSE Fa!HaversineRoute(length)
    <3>1. length \in Nat /\ duration \in Nat
      BY FaresAssumption
    <3>2. [length |-> length, duration |-> duration] \in Way
      BY <3>1 DEF Way
    <3>3. Fa!HaversineRoute(length) \in Way
      <4>1. PICK d \in Nat : d = (length * 135) \div 100
        BY <3>1
      <4>2. (d * 36) \div 220 \in Nat
        OBVIOUS
      <4> QED
        BY <4>1, <4>2 DEF Way, Fa!HaversineRoute
    <3> QED
      BY <3>2, <3>3
  <2>3. PICK from \in 0 .. 23, to \in 0 .. 23 : w = <<from, to>>
    <3>1. w = <<w[1], w[2]>> /\ w[1] \in NightStarts /\ w[2] \in NightEnds
      OBVIOUS
    <3>2. w[1] \in 0 .. 23 /\ w[2] \in 0 .. 23
      BY <3>1, FaresAssumption
    <3> QED
      BY <3>1, <3>2
  <2>4. v \in Vehicle /\ hour \in 0 .. 23 /\ surge \in Int
    BY Tariffs, FaresAssumption
  <2>5. quote' = [vehicle |-> v, route |-> r, hour |-> hour, window |-> <<from, to>>, surge |-> surge,
                  is |-> Fa!Estimate(v, r, hour, <<from, to>>, surge)]
    BY <2>1, <2>2, <2>3 DEF Fa!EstimateOne
  <2> QED
    BY <2>4, <2>5 DEF FareInv
<1>2. CASE UNCHANGED quote
  BY <1>2 DEF FareInv
<1> QED
  BY <1>1, <1>2 DEF MarketNext, marketVars

-------------------------------------------------------------------------------
(* Whom a round asks (Candidates).                                           *)

\* An order that ranks any two of S one way.
Linear(S, order) ==
  /\ \A x \in S : <<x, x>> \notin order
  /\ \A x, y \in S : x # y => <<x, y>> \in order \/ <<y, x>> \in order
  /\ \A x, y, z \in S : <<x, y>> \in order /\ <<y, z>> \in order => <<x, z>> \in order

\* Every element of S has one of n places, and what comes first has the lower one.
InPlaces(S, order, n, place) ==
  /\ n \in Nat
  /\ place \in [1 .. n -> S]
  /\ \A i, j \in 1 .. n : i < j => <<place[i], place[j]>> \in order
  /\ \A x \in S : \E i \in 1 .. n : place[i] = x

\* Sorting keeps every element once and puts what comes first first.
LEMMA ArrangedSorts ==
  ASSUME NEW S, IsFiniteSet(S), NEW order, Linear(S, order)
  PROVE  InPlaces(S, order, Cardinality(S), Arranged(S, order))
<1> USE DEF Linear
<1> DEFINE n == Cardinality(S)
           Below(x) == {y \in S : <<y, x>> \in order}
           place == [x \in S |-> Cardinality(Below(x))]
           arr == [k \in 1 .. n |-> CHOOSE x \in S : Cardinality(Below(x)) = k - 1]
<1>1. n \in Nat
  BY FS_CardinalityType
<1>2. ASSUME NEW x \in S
      PROVE  place[x] \in 0 .. n - 1 /\ IsFiniteSet(Below(x)) /\ place[x] = Cardinality(Below(x))
  <2>1. Below(x) \in SUBSET (S \ {x})
    OBVIOUS
  <2>2. IsFiniteSet(S \ {x}) /\ Cardinality(S \ {x}) = n - 1
    BY FS_RemoveElement
  <2>3. IsFiniteSet(Below(x)) /\ Cardinality(Below(x)) <= n - 1
    <3> HIDE DEF Below, n
    <3> QED
      BY <2>1, <2>2, FS_Subset
  <2>4. Cardinality(Below(x)) \in Nat
    BY <2>3, FS_CardinalityType
  <2> QED
    BY <1>1, <2>3, <2>4
<1>3. ASSUME NEW x \in S, NEW y \in S, <<x, y>> \in order
      PROVE  place[x] < place[y]
  <2>1. Below(x) \in SUBSET Below(y) /\ x \in Below(y) /\ x \notin Below(x)
    BY <1>3
  <2>2. Cardinality(Below(x)) <= Cardinality(Below(y))
        /\ (Cardinality(Below(y)) = Cardinality(Below(x)) => Below(y) = Below(x))
    BY <1>2, <2>1, FS_Subset
  <2>3. Cardinality(Below(x)) # Cardinality(Below(y))
    BY <2>1, <2>2
  <2>4. /\ place[x] \in Int /\ place[y] \in Int
        /\ place[x] = Cardinality(Below(x)) /\ place[y] = Cardinality(Below(y))
    BY <1>1, <1>2
  <2> HIDE DEF Below, place
  <2> QED
    BY <2>2, <2>3, <2>4
<1>4. \A x, y \in S : place[x] = place[y] => x = y
  <2> SUFFICES ASSUME NEW x \in S, NEW y \in S, place[x] = place[y], x # y PROVE FALSE
    OBVIOUS
  <2>1. place[x] < place[y] \/ place[y] < place[x]
    BY <1>3
  <2>2. place[x] \in Int /\ place[y] \in Int
    BY <1>1, <1>2
  <2> HIDE DEF place
  <2> QED
    BY <2>1, <2>2
<1>5. place \in Injection(S, 0 .. n - 1)
  <2>1. place \in [S -> 0 .. n - 1]
    BY <1>2
  <2> QED
    BY <1>4, <2>1 DEF Injection, IsInjective
<1> HIDE DEF place
<1>6. place \in Surjection(S, 0 .. n - 1)
  <2>1. IsFiniteSet(0 .. n - 1) /\ Cardinality(0 .. n - 1) = n
    <3>1. n - 1 \in Int /\ 0 \in Int
      BY <1>1
    <3>2. IsFiniteSet(0 .. n - 1) /\ Cardinality(0 .. n - 1) = IF 0 > n - 1 THEN 0 ELSE n - 1 - 0 + 1
      BY <3>1, FS_Interval
    <3> HIDE DEF n
    <3> QED
      BY <1>1, <3>2
  <2> QED
    BY <1>5, <2>1, FS_Injection
<1>7. \A k \in 1 .. n : \E x \in S : place[x] = k - 1
  BY <1>1, <1>6 DEF Surjection
<1>8. \A k \in 1 .. n : arr[k] \in S /\ place[arr[k]] = k - 1
  <2> SUFFICES ASSUME NEW k \in 1 .. n PROVE arr[k] \in S /\ place[arr[k]] = k - 1
    OBVIOUS
  <2>1. \E x \in S : Cardinality(Below(x)) = k - 1
    BY <1>2, <1>7
  <2>2. arr[k] \in S /\ Cardinality(Below(arr[k])) = k - 1
    BY <2>1
  <2> QED
    BY <1>2, <2>2
<1>9. arr = Arranged(S, order)
  BY DEF Arranged, Preceding
<1>10. arr \in [1 .. n -> S]
  BY <1>8
<1> HIDE DEF arr, n
<1>11. \A i, j \in 1 .. n : i < j => <<arr[i], arr[j]>> \in order
  <2> SUFFICES ASSUME NEW i \in 1 .. n, NEW j \in 1 .. n, i < j
               PROVE  <<arr[i], arr[j]>> \in order
    OBVIOUS
  <2>1. arr[i] \in S /\ arr[j] \in S /\ place[arr[i]] = i - 1 /\ place[arr[j]] = j - 1
    BY <1>8
  <2>2. arr[i] # arr[j]
    BY <1>1, <2>1
  <2>3. ~ (<<arr[j], arr[i]>> \in order)
    BY <1>1, <1>3, <2>1
  <2> QED
    BY <2>1, <2>2, <2>3
<1>12. \A x \in S : \E i \in 1 .. n : arr[i] = x
  <2> SUFFICES ASSUME NEW x \in S PROVE \E i \in 1 .. n : arr[i] = x
    OBVIOUS
  <2> PICK k \in 0 .. n - 1 : place[x] = k
    BY <1>2
  <2>1. k \in Nat /\ k + 1 \in 1 .. n /\ k + 1 - 1 = k
    BY <1>1
  <2>2. arr[k + 1] \in S /\ place[arr[k + 1]] = k
    BY <1>8, <2>1
  <2> QED
    BY <1>4, <2>1, <2>2
<1> QED
  BY <1>1, <1>9, <1>10, <1>11, <1>12 DEF n, InPlaces

\* The search and the demand sort in the same way.
LEMMA SameSort ==
  \A S, order : Ca!Arranged(S, order) = Arranged(S, order) /\ De!Arranged(S, order) = Arranged(S, order)
BY DEF Arranged, Preceding, Ca!Arranged, Ca!Preceding, De!Arranged, De!Preceding,
       Cardinality, Ca!Cardinality, De!Cardinality

\* The smaller of two.
LEMMA SmallerOfTwo ==
  ASSUME NEW a \in Int, NEW b \in Int
  PROVE  Ca!Min({a, b}) = IF a <= b THEN a ELSE b
<1>1. PICK l \in {a, b} : l = (IF a <= b THEN a ELSE b) /\ \A y \in {a, b} : l <= y
  OBVIOUS
<1>2. \A x \in {a, b} : (\A y \in {a, b} : x <= y) => x = l
  BY <1>1
<1>3. Ca!Min({a, b}) = l
  BY <1>1, <1>2 DEF Ca!Min
<1> QED
  BY <1>1, <1>3

\* The larger of two.
LEMMA LargerOfTwo ==
  ASSUME NEW a \in Int, NEW b \in Int
  PROVE  Ca!Max({a, b}) = IF a >= b THEN a ELSE b
<1>1. PICK m \in {a, b} : m = (IF a >= b THEN a ELSE b) /\ \A y \in {a, b} : m >= y
  OBVIOUS
<1>2. \A x \in {a, b} : (\A y \in {a, b} : x >= y) => x = m
  BY <1>1
<1>3. Ca!Max({a, b}) = m
  BY <1>1, <1>2 DEF Ca!Max
<1> QED
  BY <1>1, <1>3

\* What the memory has of a cell was said of it, and is no older than it says.
Remembered(e, c) ==
  \/ e = Ca!NoETA
  \/ /\ e.asked \in Nat /\ e.at \in Nat /\ e.at <= e.asked /\ e.asked <= beat
     /\ e.sec \in {Ca!Duration(c, e.asked), 0}

\* What a round knows of a driver was said about his cell, and is new enough.
Told(r, i) ==
  \/ r.etas[i].sec = -1
  \/ /\ r.etas[i].cell = Ca!CellOf(r.eligible[i])
     /\ r.etas[i].asked \in Nat /\ r.begun - r.etas[i].asked < CacheTTL
     /\ r.etas[i].sec \in {Ca!Duration(Ca!CellOf(r.eligible[i]), r.etas[i].asked),
                           36 * Ca!CellOf(r.eligible[i]), 0}

\* The drivers of a round are different ones.
Lists(s) ==
  \E n \in Nat : /\ s \in [1 .. n -> Cabs]
                 /\ \A i, j \in 1 .. n : s[i] = s[j] => i = j

Round(r) ==
  /\ r = [step |-> r.step, begun |-> r.begun, eligible |-> r.eligible, etas |-> r.etas]
  /\ r.begun \in Nat /\ r.begun <= beat
  /\ Lists(r.eligible)
  /\ DOMAIN r.etas = DOMAIN r.eligible
  /\ \A i \in DOMAIN r.eligible : Told(r, i)

SearchInv ==
  /\ beat \in Nat /\ missed \in [Cabs -> Nat]
  /\ DOMAIN cache = {(d + 1) \div 2 : d \in Cabs}
  /\ \A c \in DOMAIN cache : Remembered(cache[c], c)
  /\ DOMAIN rounds = Workers
  /\ \A w \in Workers : rounds[w] = Ca!NoRound \/ Round(rounds[w])

\* Seconds are numbers.
LEMMA TimesAreNumbers ==
  /\ \A d \in Cabs : Ca!CellOf(d) \in Nat /\ Ca!CellOf(d) \in {(e + 1) \div 2 : e \in Cabs}
  /\ \A c \in Nat, time \in Nat : Ca!Duration(c, time) \in Nat
  /\ \A d \in Cabs : missed \in [Cabs -> Nat] => Ca!Penalty(d) \in Nat
<1>1. \A d \in Cabs : Ca!CellOf(d) \in Nat /\ Ca!CellOf(d) \in {(e + 1) \div 2 : e \in Cabs}
  BY CandidatesAssumption DEF Ca!CellOf
<1>2. \A c \in Nat, time \in Nat : Ca!Duration(c, time) \in Nat
  <2> SUFFICES ASSUME NEW c \in Nat, NEW time \in Nat PROVE Ca!Duration(c, time) \in Nat
    OBVIOUS
  <2>1. PICK p \in Nat : p = 3 * c * time
    OBVIOUS
  <2>2. p % 5 \in Nat
    OBVIOUS
  <2> QED
    BY <2>1, <2>2 DEF Ca!Duration
<1>3. \A d \in Cabs : missed \in [Cabs -> Nat] => Ca!Penalty(d) \in Nat
  <2> SUFFICES ASSUME NEW d \in Cabs, missed \in [Cabs -> Nat] PROVE Ca!Penalty(d) \in Nat
    OBVIOUS
  <2>1. PICK m \in Nat : m = missed[d]
    OBVIOUS
  <2>2. PICK p \in Nat : p = WeightAcceptance * (m + 2)
    BY CandidatesAssumption
  <2>3. p \div (m + 10) \in Nat
    OBVIOUS
  <2> QED
    BY <2>1, <2>2, <2>3 DEF Ca!Penalty
<1> QED
  BY <1>1, <1>2, <1>3

\* A round under way is not at rest.
LEMMA RoundAtStep ==
  ASSUME SearchInv, NEW w \in Workers, rounds[w].step \in {"ask", "rank"}
  PROVE  Round(rounds[w])
BY DEF SearchInv, Ca!NoRound

\* Nobody writes to the memory or to a round but its owner.
LEMMA RoundsAlone ==
  ASSUME SearchInv, NEW w \in Workers, NEW r,
         rounds' = [rounds EXCEPT ![w] = r],
         beat' = beat, missed' = missed, cache' = cache, r = Ca!NoRound \/ Round(r)
  PROVE  SearchInv'
<1>1. beat' \in Nat /\ missed' \in [Cabs -> Nat] /\ DOMAIN cache' = {(d + 1) \div 2 : d \in Cabs}
      /\ DOMAIN rounds' = Workers
  BY DEF SearchInv
<1>2. \A c \in DOMAIN cache' : Remembered(cache[c], c)'
  BY DEF SearchInv, Remembered
<1>3. ASSUME NEW v \in Workers
      PROVE  (rounds[v] = Ca!NoRound \/ Round(rounds[v]))'
  <2>1. CASE v = w
    <3>1. rounds'[v] = r
      BY <2>1 DEF SearchInv
    <3> QED
      BY <3>1 DEF Round, Told
  <2>2. CASE v # w
    <3>1. rounds'[v] = rounds[v]
      BY <2>2 DEF SearchInv
    <3> QED
      BY <3>1 DEF SearchInv, Round, Told
  <2> QED
    BY <2>1, <2>2
<1> QED
  BY <1>1, <1>2, <1>3 DEF SearchInv

\* What the memory has is known to the round for the cell it is about.
LEMMA KnownIsTold ==
  ASSUME SearchInv, NEW r, NEW i, i \in DOMAIN r.eligible, r.eligible[i] \in Cabs,
         r.begun = beat, r.etas[i] = Ca!Known(r.eligible[i])
  PROVE  Told(r, i)
<1> DEFINE c == Ca!CellOf(r.eligible[i])
           e == cache[c]
<1>1. c \in DOMAIN cache
  BY TimesAreNumbers DEF SearchInv
<1>2. CASE e # Ca!NoETA /\ beat - e.at < CacheTTL
  <2>1. r.etas[i] = [sec |-> e.sec, asked |-> e.asked, cell |-> c]
    BY <1>2 DEF Ca!Known
  <2>2. /\ e.asked \in Nat /\ e.at \in Nat /\ e.at <= e.asked /\ e.asked <= beat
        /\ e.sec \in {Ca!Duration(c, e.asked), 0} /\ beat \in Nat
    BY <1>1, <1>2 DEF SearchInv, Remembered
  <2>3. beat - e.asked < CacheTTL
    BY <1>2, <2>2, CandidatesAssumption
  <2> HIDE DEF e, c
  <2>4. /\ r.etas[i].sec = e.sec /\ r.etas[i].asked = e.asked /\ r.etas[i].cell = c
    BY <2>1
  <2> QED
    BY <2>2, <2>3, <2>4 DEF Told, c
<1>3. CASE ~ (e # Ca!NoETA /\ beat - e.at < CacheTTL)
  <2>1. r.etas[i] = Ca!NoETA
    BY <1>3 DEF Ca!Known
  <2> QED
    BY <2>1 DEF Told, Ca!NoETA
<1> QED
  BY <1>2, <1>3

\* A round begins with what the memory has.
LEMMA BeginStep ==
  ASSUME SearchInv, NEW w \in Workers, NEW fit \in SUBSET Cabs, Ca!BeginRound(w, fit)
  PROVE  SearchInv'
<1>1. PICK near \in Ca!SetToSeqs(fit) :
        LET etas == [i \in DOMAIN Ca!Eligible(near) |-> Ca!Known(near[i])]
        IN  rounds' = [rounds EXCEPT ![w] =
              [step |-> IF Ca!Misses(etas) = {} THEN "rank" ELSE "ask",
               begun |-> beat, eligible |-> Ca!Eligible(near), etas |-> etas]]
  BY DEF Ca!BeginRound
<1> DEFINE s == Ca!Eligible(near)
           etas == [i \in DOMAIN s |-> Ca!Known(near[i])]
           r == [step |-> IF Ca!Misses(etas) = {} THEN "rank" ELSE "ask",
                 begun |-> beat, eligible |-> s, etas |-> etas]
<1>2. rounds' = [rounds EXCEPT ![w] = r]
  BY <1>1
<1>3. PICK m \in Nat : /\ m = Cardinality(fit) /\ near \in [1 .. m -> fit]
                       /\ \A i, j \in 1 .. m : i # j => near[i] # near[j]
  <2>1. IsFiniteSet(fit)
    BY CandidatesAssumption, FS_Subset
  <2>2. Cardinality(fit) \in Nat
    BY <2>1, FS_CardinalityType
  <2>3. Ca!Cardinality(fit) = Cardinality(fit)
    BY DEF Ca!Cardinality, Cardinality
  <2> QED
    BY <2>2, <2>3 DEF Ca!SetToSeqs
<1>4. PICK n \in Nat : n <= m /\ s = [i \in 1 .. n |-> near[i]]
  <2>1. near \in Seq(Cabs) /\ Len(near) = m
    BY <1>3
  <2>2. Ca!Limit \in Nat
    <3>1. Ca!Cardinality(Cabs) = Cardinality(Cabs) /\ Cardinality(Cabs) \in Nat
      BY CandidatesAssumption, FS_CardinalityType DEF Ca!Cardinality, Cardinality
    <3>2. Ca!Max({MaxCandidates, BatchSize}) \in Nat
      BY CandidatesAssumption, LargerOfTwo
    <3> QED
      BY <3>1, <3>2 DEF Ca!Limit
  <2>3. PICK n \in Nat : n = Ca!Min({Ca!Limit, m}) /\ n <= m
    BY <2>2, SmallerOfTwo
  <2>4. s = SubSeq(near, 1, n)
    BY <2>1, <2>3 DEF Ca!Eligible
  <2>5. SubSeq(near, 1, n) = [i \in 1 .. n |-> near[i]]
    BY <2>1, <2>3
  <2> QED
    BY <2>3, <2>4, <2>5
<1> HIDE DEF s
<1>5. s \in [1 .. n -> Cabs] /\ DOMAIN s = 1 .. n /\ \A i \in 1 .. n : s[i] = near[i] /\ s[i] \in Cabs
  BY <1>3, <1>4
<1>6. Lists(s)
  <2>1. \A i, j \in 1 .. n : s[i] = s[j] => i = j
    BY <1>3, <1>4, <1>5
  <2> QED
    BY <1>5, <2>1 DEF Lists
<1>7. r.begun = beat /\ r.eligible = s /\ r.etas = etas /\ DOMAIN etas = DOMAIN s
  OBVIOUS
<1>8. ASSUME NEW i \in DOMAIN r.eligible PROVE Told(r, i)
  <2>1. r.eligible[i] \in Cabs /\ r.etas[i] = Ca!Known(r.eligible[i])
    BY <1>5, <1>7
  <2> HIDE DEF r
  <2> QED
    BY <1>7, <1>8, <2>1, KnownIsTold
<1>9. Round(r)
  <2>1. beat \in Nat /\ beat <= beat
    BY DEF SearchInv
  <2>2. r = [step |-> r.step, begun |-> r.begun, eligible |-> r.eligible, etas |-> r.etas]
    OBVIOUS
  <2> HIDE DEF r
  <2> QED
    BY <1>6, <1>7, <1>8, <2>1, <2>2 DEF Round
<1> HIDE DEF r
<1> QED
  BY <1>2, <1>9, RoundsAlone DEF Ca!BeginRound

\* The answers go to the places they were asked for.
LEMMA LaidOutTold ==
  ASSUME NEW r, Round(r), NEW miss, NEW answers, beat \in Nat,
         \A k \in DOMAIN miss : miss[k] \in DOMAIN r.eligible =>
           /\ answers[k].asked = beat
           /\ \/ answers[k].sec = -1
              \/ /\ answers[k].cell = Ca!CellOf(r.eligible[miss[k]])
                 /\ answers[k].sec \in {Ca!Duration(Ca!CellOf(r.eligible[miss[k]]), beat),
                                        36 * Ca!CellOf(r.eligible[miss[k]]), 0}
  PROVE  Round([r EXCEPT !.step = "rank", !.etas = Ca!LaidOut(r.etas, miss, answers)])
<1> DEFINE out == Ca!LaidOut(r.etas, miss, answers)
           new == [r EXCEPT !.step = "rank", !.etas = out]
<1> HIDE DEF out
<1>1. /\ new = [step |-> "rank", begun |-> r.begun, eligible |-> r.eligible, etas |-> out]
  <2>1. PICK a, b, c, d : r = [step |-> a, begun |-> b, eligible |-> c, etas |-> d]
    BY DEF Round
  <2>2. new = [step |-> "rank", begun |-> b, eligible |-> c, etas |-> out]
    <3>1. DOMAIN r = {"step", "begun", "eligible", "etas"}
      BY <2>1
    <3>2. new = [f \in DOMAIN new |-> new[f]] /\ DOMAIN new = {"step", "begun", "eligible", "etas"}
      BY <3>1
    <3>3. new.step = "rank" /\ new.etas = out /\ new.begun = b /\ new.eligible = c
      BY <2>1
    <3> HIDE DEF new
    <3> QED
      BY <3>2, <3>3
  <2>3. r.begun = b /\ r.eligible = c
    BY <2>1
  <2> QED
    BY <2>2, <2>3
<1>2. /\ new.step = "rank" /\ new.begun = r.begun /\ new.eligible = r.eligible /\ new.etas = out
  BY <1>1
<1>3. DOMAIN out = DOMAIN r.eligible
  BY DEF out, Ca!LaidOut, Round
<1> HIDE DEF new
<1>4. ASSUME NEW i \in DOMAIN r.eligible PROVE Told(new, i)
  <2>1. CASE \E k \in DOMAIN miss : miss[k] = i
    <3>1. PICK k \in DOMAIN miss : miss[k] = i /\ out[i] = answers[k]
      BY <2>1, <1>4 DEF out, Ca!LaidOut, Round
    <3>2. /\ answers[k].asked = beat
          /\ \/ answers[k].sec = -1
             \/ /\ answers[k].cell = Ca!CellOf(r.eligible[i])
                /\ answers[k].sec \in {Ca!Duration(Ca!CellOf(r.eligible[i]), beat),
                                       36 * Ca!CellOf(r.eligible[i]), 0}
      BY <3>1
    <3>3. beat \in Nat /\ r.begun - beat < CacheTTL
      BY CandidatesAssumption DEF Round
    <3>4. new.etas[i] = answers[k]
      BY <1>2, <3>1
    <3> QED
      BY <1>2, <3>2, <3>3, <3>4 DEF Told
  <2>2. CASE ~ \E k \in DOMAIN miss : miss[k] = i
    <3>1. out[i] = r.etas[i]
      BY <2>2, <1>4 DEF out, Ca!LaidOut, Round
    <3> QED
      BY <1>2, <3>1 DEF Told, Round
  <2> QED
    BY <2>1, <2>2
<1>5. new = [step |-> new.step, begun |-> new.begun, eligible |-> new.eligible, etas |-> new.etas]
  BY <1>1, <1>2
<1>6. Round(new)
  BY <1>2, <1>3, <1>4, <1>5 DEF Round
<1> QED
  BY <1>6 DEF new, out

\* Both ways to get an answer.
LEMMA TableStep ==
  ASSUME SearchInv, NEW w \in Workers, NEW away, NEW empty, Ca!Table(w, away, empty)
  PROVE  SearchInv'
<1> DEFINE r == rounds[w]
           miss == Ca!Missing(r.etas)
           answers == Ca!Answers(r.eligible, miss, away, empty)
           new == [r EXCEPT !.step = "rank", !.etas = Ca!LaidOut(r.etas, miss, answers)]
<1>1. Round(r) /\ beat \in Nat
  BY RoundAtStep DEF Ca!Table, SearchInv
<1>2. rounds' = [rounds EXCEPT ![w] = new]
  BY DEF Ca!Table, SearchInv
<1>3. beat' = beat /\ missed' = missed
  BY DEF Ca!Table
<1>4. \A k \in DOMAIN miss :
        /\ answers[k].asked = beat /\ answers[k].cell = Ca!CellOf(r.eligible[miss[k]])
        /\ answers[k].sec \in {-1, 0, Ca!Duration(Ca!CellOf(r.eligible[miss[k]]), beat)}
  BY DEF Ca!Answers, Ca!NoWay
<1>5. Round(new)
  <2> HIDE DEF answers, miss, r
  <2> QED
    BY <1>1, <1>4, LaidOutTold
<1> HIDE DEF new
<1>6. \A c \in DOMAIN cache' : Remembered(cache[c], c)'
  <2>1. cache' = [c \in DOMAIN cache |->
           IF \E k \in DOMAIN miss : answers[k].sec >= 0 /\ answers[k].cell = c
           THEN [sec |-> IF c = away THEN 0 ELSE Ca!Duration(c, beat),
                 asked |-> beat, at |-> r.begun]
           ELSE cache[c]]
    BY DEF Ca!Table, Ca!NoWay
  <2> HIDE DEF answers, miss
  <2>2. r.begun \in Nat /\ r.begun <= beat
    BY <1>1 DEF Round
  <2>3. ASSUME NEW c \in DOMAIN cache PROVE Remembered(cache[c], c)'
    <3> PICK sec \in {Ca!Duration(c, beat), 0} : sec = IF c = away THEN 0 ELSE Ca!Duration(c, beat)
      OBVIOUS
    <3>1. \/ cache'[c] = [sec |-> sec, asked |-> beat, at |-> r.begun]
          \/ cache'[c] = cache[c]
      BY <2>1
    <3>2. CASE cache'[c] = [sec |-> sec, asked |-> beat, at |-> r.begun]
      BY <1>1, <1>3, <2>2, <3>2 DEF Remembered
    <3>3. CASE cache'[c] = cache[c]
      BY <1>3, <3>3 DEF SearchInv, Remembered
    <3> QED
      BY <3>1, <3>2, <3>3
  <2> QED
    BY <2>1, <2>3
<1>7. DOMAIN cache' = {(d + 1) \div 2 : d \in Cabs}
  BY DEF Ca!Table, SearchInv
<1>8. DOMAIN rounds' = Workers
  BY <1>2 DEF SearchInv
<1>9. ASSUME NEW v \in Workers PROVE (rounds[v] = Ca!NoRound \/ Round(rounds[v]))'
  <2>1. CASE v = w
    <3>1. rounds'[v] = new
      BY <1>2, <2>1 DEF SearchInv
    <3> QED
      BY <1>3, <1>5, <3>1 DEF Round, Told
  <2>2. CASE v # w
    <3>1. rounds'[v] = rounds[v]
      BY <1>2, <2>2 DEF SearchInv
    <3> QED
      BY <1>3, <3>1 DEF SearchInv, Round, Told
  <2> QED
    BY <2>1, <2>2
<1>10. beat' \in Nat /\ missed' \in [Cabs -> Nat]
  BY <1>3 DEF SearchInv
<1> QED
  BY <1>6, <1>7, <1>8, <1>9, <1>10 DEF SearchInv

\* When the table does not answer, whom it was asked about is told the straight way.
LEMMA FallBackStep ==
  ASSUME SearchInv, NEW w \in Workers, Ca!FallBack(w)
  PROVE  SearchInv'
<1> DEFINE r == rounds[w]
           miss == Ca!Missing(r.etas)
           answers == [k \in DOMAIN miss |-> Ca!Straight(r.eligible[miss[k]], beat)]
           new == [r EXCEPT !.step = "rank", !.etas = Ca!LaidOut(r.etas, miss, answers)]
<1>1. Round(r) /\ beat \in Nat
  BY RoundAtStep DEF Ca!FallBack, SearchInv
<1>2. rounds' = [rounds EXCEPT ![w] = new]
  BY DEF Ca!FallBack, SearchInv
<1>3. \A k \in DOMAIN miss :
        /\ answers[k].asked = beat /\ answers[k].cell = Ca!CellOf(r.eligible[miss[k]])
        /\ answers[k].sec = 36 * Ca!CellOf(r.eligible[miss[k]])
  BY DEF Ca!Straight, Ca!DistanceM
<1>4. Round(new)
  <2> HIDE DEF answers, miss, r
  <2> QED
    BY <1>1, <1>3, LaidOutTold
<1> HIDE DEF new
<1> QED
  BY <1>2, <1>4, RoundsAlone DEF Ca!FallBack

\* The invariant of the search.
LEMMA SearchStep ==
  ASSUME SearchInv, [MarketNext]_marketVars
  PROVE  SearchInv'
<1>1. ASSUME NEW w \in Workers, NEW fit \in SUBSET Cabs \ {{}}, Ca!BeginRound(w, fit)
      PROVE  SearchInv'
  BY <1>1, BeginStep
<1>2. ASSUME NEW w \in Workers, NEW away \in {0} \cup DOMAIN cache, NEW empty \in BOOLEAN,
             Ca!Table(w, away, empty)
      PROVE  SearchInv'
  BY <1>2, TableStep
<1>3. ASSUME NEW w \in Workers, Ca!FallBack(w)
      PROVE  SearchInv'
  BY <1>3, FallBackStep
<1>4. ASSUME NEW w \in Workers, Ca!SendOffers(w)
      PROVE  SearchInv'
  BY <1>4, RoundsAlone DEF Ca!SendOffers
<1>5. CASE Ca!Beat
  <2>1. beat' = beat + 1 /\ missed' = missed /\ cache' = cache /\ rounds' = rounds /\ beat \in Nat
    BY <1>5 DEF Ca!Beat, SearchInv
  <2>2. \A c \in DOMAIN cache : Remembered(cache[c], c)'
    BY <2>1 DEF SearchInv, Remembered
  <2>3. \A w \in Workers : (rounds[w] = Ca!NoRound \/ Round(rounds[w]))'
    <3>1. ASSUME NEW w \in Workers, Round(rounds[w]) PROVE Round(rounds[w])'
      <4>1. rounds[w].begun <= beat'
        BY <2>1, <3>1 DEF Round
      <4> QED
        BY <2>1, <3>1, <4>1 DEF Round, Told
    <3> QED
      BY <2>1, <3>1 DEF SearchInv
  <2> QED
    BY <2>1, <2>2, <2>3 DEF SearchInv
<1>6. CASE UNCHANGED candidates
  BY <1>6 DEF candidates, SearchInv, Remembered, Round, Told
<1>7. CASE Ca!CandidatesNext
  BY <1>1, <1>2, <1>3, <1>4, <1>5, <1>7 DEF Ca!CandidatesNext
<1> QED
  BY <1>6, <1>7 DEF MarketNext, marketVars, dispatch

\* Counting what a list without repetitions has.
LEMMA ImageCount ==
  ASSUME NEW S, IsFiniteSet(S), NEW f, DOMAIN f = S, \A x, y \in S : f[x] = f[y] => x = y
  PROVE  Cardinality({f[x] : x \in S}) = Cardinality(S)
<1> DEFINE T == {f[x] : x \in S}
<1>1. f \in [S -> T] \/ [x \in S |-> f[x]] \in [S -> T]
  OBVIOUS
<1> DEFINE g == [x \in S |-> f[x]]
<1>2. g \in Bijection(S, T)
  <2>1. g \in [S -> T] /\ \A x \in S : g[x] = f[x]
    OBVIOUS
  <2>2. \A y \in T : \E x \in S : g[x] = y
    OBVIOUS
  <2>3. \A x, y \in S : g[x] = g[y] => x = y
    BY <2>1
  <2> HIDE DEF g, T
  <2> QED
    BY <2>1, <2>2, <2>3 DEF Bijection, Injection, Surjection, IsInjective
<1>3. ExistsBijection(S, T)
  BY <1>2 DEF ExistsBijection
<1> HIDE DEF T
<1>4. Cardinality(T) = Cardinality(S)
  BY <1>3, FS_Bijection
<1> QED
  BY <1>4 DEF T

\* Drivers are ranked by score, and by id where it is the same.
LEMMA RankOrders ==
  ASSUME NEW r, Lists(r.eligible), NEW R, \A i \in R : i \in DOMAIN r.eligible /\ Ca!Score(r, i) \in Int
  PROVE  LET order == {p \in R \X R : Ca!Before(r, p[1], p[2])}
         IN
         /\ \A x, y \in R : <<x, y>> \in order <=> Ca!Before(r, x, y)
         /\ \A x \in R : <<x, x>> \notin order
         /\ \A x, y \in R : x # y => <<x, y>> \in order \/ <<y, x>> \in order
         /\ \A x, y, z \in R : <<x, y>> \in order /\ <<y, z>> \in order => <<x, z>> \in order
<1> DEFINE order == {p \in R \X R : Ca!Before(r, p[1], p[2])}
<1>1. \A x, y \in R : <<x, y>> \in order <=> Ca!Before(r, x, y)
  OBVIOUS
<1>2. \A x \in R : r.eligible[x] \in Int
  <2>1. PICK n \in Nat : r.eligible \in [1 .. n -> Cabs]
    BY DEF Lists
  <2>2. \A x \in DOMAIN r.eligible : r.eligible[x] \in Cabs
    BY <2>1
  <2> QED
    <3>1. \A x \in R : x \in DOMAIN r.eligible
      OBVIOUS
    <3>2. \A d \in Cabs : d \in Int
      BY CandidatesAssumption
    <3> QED
      BY <2>2, <3>1, <3>2
<1>3. \A x, y \in R : r.eligible[x] = r.eligible[y] => x = y
  BY DEF Lists
<1>4. \A x \in R : ~ Ca!Before(r, x, x)
  BY <1>2 DEF Ca!Before
<1>5. \A x, y \in R : x # y => Ca!Before(r, x, y) \/ Ca!Before(r, y, x)
  BY <1>2, <1>3 DEF Ca!Before
<1>6. \A x, y, z \in R : Ca!Before(r, x, y) /\ Ca!Before(r, y, z) => Ca!Before(r, x, z)
  BY <1>2 DEF Ca!Before
<1> HIDE DEF order
<1>7. /\ \A x \in R : <<x, x>> \notin order
      /\ \A x, y \in R : x # y => <<x, y>> \in order \/ <<y, x>> \in order
      /\ \A x, y, z \in R : <<x, y>> \in order /\ <<y, z>> \in order => <<x, z>> \in order
  BY <1>1, <1>4, <1>5, <1>6
<1> QED
  BY <1>1, <1>7 DEF order

\* What a round knows of those it can reach are numbers.
LEMMA ReachableTold ==
  ASSUME SearchInv, NEW r, Round(r), NEW i \in Ca!Reachable(r)
  PROVE  /\ i \in DOMAIN r.eligible
         /\ r.etas[i].cell = Ca!CellOf(r.eligible[i])
         /\ r.begun - r.etas[i].asked < CacheTTL
         /\ r.etas[i].sec \in {Ca!Duration(Ca!CellOf(r.eligible[i]), r.etas[i].asked),
                               Ca!Straight(r.eligible[i], beat).sec, Ca!NoWay}
         /\ r.etas[i].sec \in Nat
         /\ Ca!Penalty(r.eligible[i]) \in Nat /\ Ca!Score(r, i) \in Nat
         /\ Ca!Score(r, i) = r.etas[i].sec + Ca!Penalty(r.eligible[i])
<1>1. i \in DOMAIN r.eligible /\ r.etas[i].sec >= 0
  BY DEF Ca!Reachable
<1>2. r.etas[i].sec # -1
  <2>1. ASSUME r.etas[i].sec = -1 PROVE FALSE
    <3>1. -1 >= 0
      BY <1>1, <2>1
    <3> QED
      BY <3>1
  <2> QED
    BY <2>1
<1>3. /\ r.etas[i].cell = Ca!CellOf(r.eligible[i])
      /\ r.etas[i].asked \in Nat /\ r.begun - r.etas[i].asked < CacheTTL
      /\ r.etas[i].sec \in {Ca!Duration(Ca!CellOf(r.eligible[i]), r.etas[i].asked),
                            36 * Ca!CellOf(r.eligible[i]), 0}
  BY <1>1, <1>2 DEF Round, Told
<1>4. Ca!Straight(r.eligible[i], beat).sec = 36 * Ca!CellOf(r.eligible[i])
  BY DEF Ca!Straight, Ca!DistanceM
<1>5. r.eligible[i] \in Cabs
  BY <1>1 DEF Round, Lists
<1>6. Ca!CellOf(r.eligible[i]) \in Nat /\ Ca!Penalty(r.eligible[i]) \in Nat
  BY <1>5, TimesAreNumbers DEF SearchInv
<1>7. r.etas[i].sec \in Nat
  <2>1. Ca!Duration(Ca!CellOf(r.eligible[i]), r.etas[i].asked) \in Nat
    BY <1>3, <1>6, TimesAreNumbers
  <2>2. 36 * Ca!CellOf(r.eligible[i]) \in Nat
    BY <1>6
  <2> QED
    BY <1>3, <2>1, <2>2
<1> QED
  BY <1>1, <1>3, <1>4, <1>6, <1>7 DEF Ca!Score, Ca!NoWay

\* Of those a round can reach it asks the best.
LEMMA BestOfRound ==
  ASSUME SearchInv, NEW r, Round(r)
  PROVE  LET asked == Ca!ToSet(Ca!Offered(r))
             known == {r.eligible[i] : i \in Ca!Reachable(r)}
             Sec(d) == r.etas[CHOOSE i \in DOMAIN r.eligible : r.eligible[i] = d].sec
         IN  /\ Ca!Cardinality(asked) = Ca!Min({BatchSize, Ca!Cardinality(known)})
             /\ \A d \in asked, e \in known \ asked :
                  Sec(d) + Ca!Penalty(d) <= Sec(e) + Ca!Penalty(e)
<1> DEFINE R == Ca!Reachable(r)
           order == {p \in R \X R : Ca!Before(r, p[1], p[2])}
           ranked == Ca!Ranked(r)
           N == Cardinality(R)
           known == {r.eligible[i] : i \in R}
           asked == Ca!ToSet(Ca!Offered(r))
           Sec(d) == r.etas[CHOOSE i \in DOMAIN r.eligible : r.eligible[i] = d].sec
<1>1. PICK n \in Nat : r.eligible \in [1 .. n -> Cabs] /\ \A i, j \in 1 .. n : r.eligible[i] = r.eligible[j] => i = j
  BY DEF Round, Lists
<1>2. R \subseteq 1 .. n
  BY <1>1 DEF Ca!Reachable
<1>3. IsFiniteSet(R)
  <2>1. IsFiniteSet(1 .. n)
    BY FS_Interval
  <2> HIDE DEF R
  <2> QED
    BY <1>2, <2>1, FS_Subset
<1>4. \A i \in R : i \in DOMAIN r.eligible /\ Ca!Score(r, i) \in Int
  BY ReachableTold
<1>5. /\ \A x, y \in R : <<x, y>> \in order <=> Ca!Before(r, x, y)
      /\ \A x \in R : <<x, x>> \notin order
      /\ \A x, y \in R : x # y => <<x, y>> \in order \/ <<y, x>> \in order
      /\ \A x, y, z \in R : <<x, y>> \in order /\ <<y, z>> \in order => <<x, z>> \in order
  <2> HIDE DEF R
  <2>1. Lists(r.eligible)
    BY DEF Round
  <2> QED
    BY <1>4, <2>1, RankOrders
<1>6. ranked = Arranged(R, order)
  BY SameSort DEF Ca!Ranked
<1> HIDE DEF R, order, ranked
<1>7. /\ N \in Nat /\ ranked \in [1 .. N -> R]
      /\ \A i, j \in 1 .. N : i < j => <<ranked[i], ranked[j]>> \in order
      /\ \A x \in R : \E i \in 1 .. N : ranked[i] = x
  <2>1. Linear(R, order)
    BY ONLY <1>5 DEF Linear
  <2>2. InPlaces(R, order, N, ranked)
    BY ONLY <1>3, <1>6, <2>1, ArrangedSorts, Zenon
  <2> HIDE DEF N
  <2> QED
    BY ONLY <2>2 DEF InPlaces
<1> HIDE DEF N
<1>8. \A i, j \in 1 .. N : ranked[i] = ranked[j] => i = j
  <2> SUFFICES ASSUME NEW i \in 1 .. N, NEW j \in 1 .. N, i < j PROVE ranked[i] # ranked[j]
    BY <1>7
  <2> QED
    BY <1>5, <1>7
<1>9. PICK b \in Nat : b = Ca!Min({BatchSize, N}) /\ b <= N
  BY <1>7, SmallerOfTwo, CandidatesAssumption
<1>10. Ca!Offered(r) = [k \in 1 .. b |-> r.eligible[ranked[k]]]
  <2>1. ranked \in Seq(R) /\ Len(ranked) = N
    BY <1>7
  <2>2. SubSeq(ranked, 1, b) = [k \in 1 .. b |-> ranked[k]]
    BY <1>9, <2>1
  <2>3. Ca!Offered(r) = [k \in DOMAIN SubSeq(ranked, 1, b) |-> r.eligible[SubSeq(ranked, 1, b)[k]]]
    BY <1>9, <2>1 DEF Ca!Offered, ranked
  <2> QED
    BY <2>2, <2>3
<1> DEFINE offered == [k \in 1 .. b |-> r.eligible[ranked[k]]]
<1>11. asked = {offered[k] : k \in 1 .. b}
  BY <1>10 DEF Ca!ToSet
<1>12. \A k \in 1 .. b : /\ k \in 1 .. N /\ ranked[k] \in R /\ ranked[k] \in 1 .. n
                           /\ offered[k] = r.eligible[ranked[k]]
  <2>1. \A k \in 1 .. b : k \in 1 .. N
    BY <1>7, <1>9
  <2> QED
    BY <1>2, <1>7, <2>1
<1>13. \A k, l \in 1 .. b : offered[k] = offered[l] => k = l
  BY <1>1, <1>8, <1>12
<1>14. Cardinality(asked) = b
  <2>1. DOMAIN offered = 1 .. b
    OBVIOUS
  <2>2. IsFiniteSet(1 .. b) /\ Cardinality(1 .. b) = b
    BY FS_Interval
  <2> HIDE DEF offered, asked
  <2> QED
    BY <1>11, <1>13, <2>1, <2>2, ImageCount
<1>15. Cardinality(known) = N
  <2> DEFINE f == [i \in R |-> r.eligible[i]]
  <2>1. DOMAIN f = R /\ \A x, y \in R : f[x] = f[y] => x = y
    BY <1>1, <1>2
  <2>2. known = {f[x] : x \in R}
    OBVIOUS
  <2> HIDE DEF f, known
  <2> QED
    BY <1>3, <2>1, <2>2, ImageCount DEF N
<1>16. \A i \in R : Sec(r.eligible[i]) = r.etas[i].sec
  BY <1>1, <1>2
<1>17. ASSUME NEW d \in asked, NEW e \in known \ asked
       PROVE  Sec(d) + Ca!Penalty(d) <= Sec(e) + Ca!Penalty(e)
  <2>1. PICK k \in 1 .. b : d = r.eligible[ranked[k]] /\ ranked[k] \in R /\ k \in 1 .. N
    <3>1. PICK k \in 1 .. b : d = offered[k]
      <4> HIDE DEF offered, asked
      <4> QED
        BY <1>11
    <3> QED
      BY <1>12, <3>1
  <2>2. PICK x \in R : e = r.eligible[x]
    OBVIOUS
  <2>3. PICK l \in 1 .. N : ranked[l] = x
    BY <1>7
  <2>4. ~ (l \in 1 .. b)
    <3>1. ASSUME l \in 1 .. b PROVE FALSE
      <4>1. e = offered[l]
        BY <2>2, <2>3, <3>1
      <4> HIDE DEF offered, asked, known
      <4> QED
        BY <1>11, <3>1, <4>1
    <3> QED
      BY <3>1
  <2>5. k < l
    BY <1>7, <2>1, <2>3, <2>4
  <2>6. Ca!Before(r, ranked[k], x)
    BY <1>5, <1>7, <2>1, <2>3, <2>5
  <2>7. /\ Ca!Score(r, ranked[k]) = r.etas[ranked[k]].sec + Ca!Penalty(d)
        /\ Ca!Score(r, ranked[k]) \in Nat /\ Ca!Score(r, x) \in Nat
        /\ Ca!Score(r, x) = r.etas[x].sec + Ca!Penalty(e)
    BY <2>1, <2>2, ReachableTold DEF R
  <2>8. Ca!Score(r, ranked[k]) <= Ca!Score(r, x)
    BY <2>6, <2>7 DEF Ca!Before
  <2>9. Sec(d) = r.etas[ranked[k]].sec /\ Sec(e) = r.etas[x].sec
    BY <1>16, <2>1, <2>2
  <2> HIDE DEF Sec
  <2> QED
    BY <2>7, <2>8, <2>9
<1>18. Ca!Cardinality(asked) = Ca!Min({BatchSize, Ca!Cardinality(known)})
  <2> HIDE DEF asked, known
  <2>1. \A S : Ca!Cardinality(S) = Cardinality(S)
    BY DEF Ca!Cardinality, Cardinality
  <2> QED
    BY <1>9, <1>14, <1>15, <2>1
<1> HIDE DEF asked, known, Sec
<1>19. /\ Ca!Cardinality(asked) = Ca!Min({BatchSize, Ca!Cardinality(known)})
       /\ \A d \in asked, e \in known \ asked : Sec(d) + Ca!Penalty(d) <= Sec(e) + Ca!Penalty(e)
  BY <1>17, <1>18
<1> QED
  BY <1>19 DEF asked, known, Sec, R

\* A round asks the best of those that have a travel time, each by what was said, a
\* moment ago or now, about the cell he stands in; 0 was said where there is no way
\* (matching/engine.go, scoring.go, eta_osrm.go).
THEOREM BestFirst == MarketSpec => []BestAreAsked
<1>1. MarketInit => SearchInv
  <2> SUFFICES ASSUME MarketInit PROVE SearchInv
    OBVIOUS
  <2>1. Ca!CandidatesInit
    BY DEF MarketInit
  <2>2. beat \in Nat /\ missed \in [Cabs -> Nat]
    BY <2>1, CandidatesAssumption DEF Ca!CandidatesInit
  <2>3. /\ DOMAIN cache = {(d + 1) \div 2 : d \in Cabs}
        /\ \A c \in DOMAIN cache : cache[c] = Ca!NoETA
        /\ DOMAIN rounds = Workers /\ \A w \in Workers : rounds[w] = Ca!NoRound
    BY <2>1 DEF Ca!CandidatesInit
  <2> QED
    BY <2>2, <2>3 DEF SearchInv, Remembered
<1>2. SearchInv /\ [MarketNext]_marketVars => SearchInv'
  BY SearchStep
<1>3. SearchInv => BestAreAsked
  <2> SUFFICES ASSUME SearchInv, NEW w \in Workers, rounds[w].step = "rank"
               PROVE  LET r == rounds[w]
                          asked == Ca!ToSet(Ca!Offered(r))
                          known == {r.eligible[i] : i \in Ca!Reachable(r)}
                          Sec(d) == r.etas[CHOOSE i \in DOMAIN r.eligible : r.eligible[i] = d].sec
                      IN  /\ \A i \in Ca!Reachable(r) :
                               /\ r.etas[i].cell = Ca!CellOf(r.eligible[i])
                               /\ r.begun - r.etas[i].asked < CacheTTL
                               /\ r.etas[i].sec \in {Ca!Duration(Ca!CellOf(r.eligible[i]), r.etas[i].asked),
                                                     Ca!Straight(r.eligible[i], beat).sec, Ca!NoWay}
                          /\ Ca!Cardinality(asked) = Ca!Min({BatchSize, Ca!Cardinality(known)})
                          /\ \A d \in asked, e \in known \ asked :
                               Sec(d) + Ca!Penalty(d) <= Sec(e) + Ca!Penalty(e)
    BY DEF BestAreAsked, Ca!BestAreAsked
  <2> DEFINE r == rounds[w]
  <2>2. Round(r)
    BY RoundAtStep
  <2>3. \A i \in Ca!Reachable(r) :
          /\ r.etas[i].cell = Ca!CellOf(r.eligible[i])
          /\ r.begun - r.etas[i].asked < CacheTTL
          /\ r.etas[i].sec \in {Ca!Duration(Ca!CellOf(r.eligible[i]), r.etas[i].asked),
                                Ca!Straight(r.eligible[i], beat).sec, Ca!NoWay}
    BY <2>2, ReachableTold
  <2>4. LET asked == Ca!ToSet(Ca!Offered(r))
            known == {r.eligible[i] : i \in Ca!Reachable(r)}
            Sec(d) == r.etas[CHOOSE i \in DOMAIN r.eligible : r.eligible[i] = d].sec
        IN  /\ Ca!Cardinality(asked) = Ca!Min({BatchSize, Ca!Cardinality(known)})
            /\ \A d \in asked, e \in known \ asked :
                 Sec(d) + Ca!Penalty(d) <= Sec(e) + Ca!Penalty(e)
    <3> HIDE DEF r
    <3> QED
      BY <2>2, BestOfRound
  <2> QED
    BY <2>3, <2>4
<1> QED
  BY <1>1, <1>2, <1>3, PTL DEF MarketSpec

-------------------------------------------------------------------------------
(* What surge counts (Demand).                                               *)

\* Where a request is recorded.
Site(r) == <<r.by, r.cell>>

\* The places whose times are after a moment, and the requests there were.
Counted(ts, f) == Cardinality({i \in DOMAIN ts : ts[i] > f})
Were(rec, c, f) == Cardinality({r \in rec : Site(r) = c /\ r.at > f})

\* Times that are kept are finitely many.
LEMMA CountedIsNumber ==
  ASSUME NEW ts \in Seq(Nat), NEW f \in Int
  PROVE  /\ IsFiniteSet({i \in DOMAIN ts : ts[i] > f}) /\ Counted(ts, f) \in Nat
         /\ \A g \in Int : f <= g => Counted(ts, g) <= Counted(ts, f)
<1>1. IsFiniteSet(DOMAIN ts)
  <2>1. DOMAIN ts = 1 .. Len(ts) /\ Len(ts) \in Nat
    OBVIOUS
  <2> QED
    BY <2>1, FS_Interval
<1>2. ASSUME NEW g \in Int
      PROVE  IsFiniteSet({i \in DOMAIN ts : ts[i] > g})
  BY <1>1, FS_Subset
<1>3. ASSUME NEW g \in Int, f <= g
      PROVE  Counted(ts, g) <= Counted(ts, f)
  <2>1. \A i \in DOMAIN ts : ts[i] \in Nat
    OBVIOUS
  <2>2. {i \in DOMAIN ts : ts[i] > g} \in SUBSET {i \in DOMAIN ts : ts[i] > f}
    BY <1>3, <2>1
  <2> QED
    BY <1>2, <2>2, FS_Subset DEF Counted
<1> QED
  BY <1>2, <1>3, FS_CardinalityType DEF Counted

\* Numbers are sorted by size.
LEMMA NumbersOrder ==
  ASSUME NEW K, K \subseteq Nat
  PROVE  LET order == {p \in K \X K : p[1] < p[2]}
         IN  /\ \A x, y \in K : <<x, y>> \in order <=> x < y
             /\ \A x \in K : <<x, x>> \notin order
             /\ \A x, y \in K : x # y => <<x, y>> \in order \/ <<y, x>> \in order
             /\ \A x, y, z \in K : <<x, y>> \in order /\ <<y, z>> \in order => <<x, z>> \in order
<1> DEFINE order == {p \in K \X K : p[1] < p[2]}
<1>1. \A x, y \in K : <<x, y>> \in order <=> x < y
  OBVIOUS
<1> HIDE DEF order
<1>2. /\ \A x \in K : <<x, x>> \notin order
      /\ \A x, y \in K : x # y => <<x, y>> \in order \/ <<y, x>> \in order
      /\ \A x, y, z \in K : <<x, y>> \in order /\ <<y, z>> \in order => <<x, z>> \in order
  BY <1>1
<1> QED
  BY <1>1, <1>2 DEF order

\* What is kept are the times after the cut, in their order.
LEMMA SinceIs ==
  ASSUME NEW ts \in Seq(Nat), NEW t \in Nat, NEW span \in Nat
  PROVE  LET young == {i \in DOMAIN ts : ts[i] > t - span}
             n == Counted(ts, t - span)
         IN  /\ n \in Nat /\ De!Since(ts, t, span) \in Seq(Nat) /\ Len(De!Since(ts, t, span)) = n
             /\ \E place \in [1 .. n -> young] :
                  /\ \A i, j \in 1 .. n : i < j => place[i] < place[j]
                  /\ \A x \in young : \E i \in 1 .. n : place[i] = x
                  /\ \A i \in 1 .. n : De!Since(ts, t, span)[i] = ts[place[i]]
<1> DEFINE K == {i \in DOMAIN ts : ts[i] > t - span}
           n == Counted(ts, t - span)
           order == {p \in K \X K : p[1] < p[2]}
           place == Arranged(K, order)
<1>1. IsFiniteSet(K) /\ K \subseteq Nat /\ \A i \in K : ts[i] \in Nat
  <2>1. t - span \in Int
    OBVIOUS
  <2>2. IsFiniteSet(K)
    BY <2>1, CountedIsNumber
  <2> QED
    BY <2>2
<1>2. De!Since(ts, t, span) = [k \in DOMAIN place |-> ts[place[k]]]
  BY SameSort DEF De!Since
<1>3. n = Cardinality(K)
  BY DEF Counted
<1> HIDE DEF K
<1>4. /\ \A x, y \in K : <<x, y>> \in order <=> x < y
      /\ \A x \in K : <<x, x>> \notin order
      /\ \A x, y \in K : x # y => <<x, y>> \in order \/ <<y, x>> \in order
      /\ \A x, y, z \in K : <<x, y>> \in order /\ <<y, z>> \in order => <<x, z>> \in order
  BY <1>1, NumbersOrder
<1>5. IsFiniteSet(K)
  BY <1>1
<1> HIDE DEF order
<1>6. /\ n \in Nat /\ place \in [1 .. n -> K]
      /\ \A i, j \in 1 .. n : i < j => <<place[i], place[j]>> \in order
      /\ \A x \in K : \E i \in 1 .. n : place[i] = x
  <2>1. Linear(K, order)
    BY ONLY <1>4 DEF Linear
  <2>2. InPlaces(K, order, n, place)
    BY ONLY <1>3, <1>5, <2>1, ArrangedSorts, Zenon
  <2> HIDE DEF n, place
  <2> QED
    BY ONLY <2>2 DEF InPlaces
<1>7. /\ n \in Nat /\ place \in [1 .. n -> K]
      /\ \A i, j \in 1 .. n : i < j => place[i] < place[j]
      /\ \A x \in K : \E i \in 1 .. n : place[i] = x
  BY <1>4, <1>6
<1> HIDE DEF n, place
<1>8. De!Since(ts, t, span) = [k \in 1 .. n |-> ts[place[k]]]
  BY <1>2, <1>7
<1>9. De!Since(ts, t, span) \in [1 .. n -> Nat]
  BY <1>1, <1>7, <1>8
<1>10. De!Since(ts, t, span) \in Seq(Nat) /\ Len(De!Since(ts, t, span)) = n
  BY <1>7, <1>9
<1>11. \A i \in 1 .. n : De!Since(ts, t, span)[i] = ts[place[i]]
  BY <1>8
<1>12. \E p \in [1 .. n -> K] :
          /\ \A i, j \in 1 .. n : i < j => p[i] < p[j]
          /\ \A x \in K : \E i \in 1 .. n : p[i] = x
          /\ \A i \in 1 .. n : De!Since(ts, t, span)[i] = ts[p[i]]
  <2>1. place \in [1 .. n -> K]
    BY <1>7
  <2> WITNESS place \in [1 .. n -> K]
  <2> QED
    BY <1>7, <1>11
<1> QED
  BY <1>7, <1>10, <1>12 DEF K, n

\* As many are kept as there are after the cut.
LEMMA SinceLength ==
  ASSUME NEW ts \in Seq(Nat), NEW t \in Nat, NEW span \in Nat
  PROVE  Len(De!Since(ts, t, span)) = Counted(ts, t - span)
BY SinceIs

\* Later times are counted as before.
LEMMA SinceCounts ==
  ASSUME NEW ts \in Seq(Nat), NEW t \in Nat, NEW span \in Nat, NEW f \in Int
  PROVE  /\ Counted(De!Since(ts, t, span), f) <= Counted(ts, f)
         /\ f >= t - span => Counted(De!Since(ts, t, span), f) = Counted(ts, f)
<1> DEFINE K == {i \in DOMAIN ts : ts[i] > t - span}
           n == Counted(ts, t - span)
           w == De!Since(ts, t, span)
           S == {i \in DOMAIN w : w[i] > f}
           T == {i \in DOMAIN ts : ts[i] > f}
<1>1. /\ n \in Nat /\ w \in Seq(Nat) /\ Len(w) = n /\ DOMAIN w = 1 .. n
  <2>1. n \in Nat /\ w \in Seq(Nat) /\ Len(w) = n
    BY SinceIs, Zenon
  <2> HIDE DEF w, n
  <2> QED
    BY <2>1
<1>2. PICK place \in [1 .. n -> K] :
        /\ \A i, j \in 1 .. n : i < j => place[i] < place[j]
        /\ \A x \in K : \E i \in 1 .. n : place[i] = x
        /\ \A i \in 1 .. n : w[i] = ts[place[i]]
  BY SinceIs
<1>3. IsFiniteSet(S) /\ IsFiniteSet(T)
  BY <1>1, CountedIsNumber
<1>4. \A i \in 1 .. n : place[i] \in K /\ place[i] \in DOMAIN ts /\ place[i] \in Int
  <2>1. \A i \in K : i \in DOMAIN ts /\ i \in Int
    OBVIOUS
  <2> HIDE DEF K, n
  <2> QED
    BY <1>2, <2>1
<1> DEFINE g == [i \in S |-> place[i]]
           U == {g[i] : i \in S}
<1>5. DOMAIN g = S /\ \A i \in S : g[i] = place[i] /\ i \in 1 .. n
  BY <1>1
<1>6. \A x, y \in S : g[x] = g[y] => x = y
  <2> SUFFICES ASSUME NEW x \in S, NEW y \in S, g[x] = g[y], x # y PROVE FALSE
    OBVIOUS
  <2>1. x \in 1 .. n /\ y \in 1 .. n /\ place[x] = place[y] /\ place[x] \in Int
    BY <1>4, <1>5
  <2>2. place[x] < place[y] \/ place[y] < place[x]
    <3> HIDE DEF n, S, g
    <3>1. x < y \/ y < x
      BY <1>1, <2>1
    <3> QED
      BY <1>2, <2>1, <3>1
  <2> HIDE DEF g, S, n
  <2> QED
    BY <2>1, <2>2
<1> HIDE DEF g
<1>7. Cardinality(U) = Cardinality(S)
  <2>1. U = {g[x] : x \in S}
    OBVIOUS
  <2> HIDE DEF S, U, T, n, K, w
  <2> QED
    BY <1>3, <1>5, <1>6, <2>1, ImageCount
<1>8. U \in SUBSET T
  BY <1>1, <1>2, <1>4, <1>5
<1>9. f >= t - span => U = T
  <2> SUFFICES ASSUME f >= t - span, NEW x \in T PROVE x \in U
    BY <1>8
  <2>1. x \in K
    <3>1. ts[x] \in Nat /\ ts[x] > f
      OBVIOUS
    <3> QED
      BY <3>1
  <2>2. PICK i \in 1 .. n : place[i] = x
    BY <1>2, <2>1
  <2>3. i \in S
    BY <1>1, <1>2, <2>2
  <2> QED
    BY <1>5, <2>2, <2>3
<1>10. Cardinality(U) <= Cardinality(T)
  <2> HIDE DEF U, T
  <2> QED
    BY <1>3, <1>8, FS_Subset
<1> QED
  BY <1>7, <1>9, <1>10 DEF Counted

\* One time more.
LEMMA AppendCounts ==
  ASSUME NEW w \in Seq(Nat), NEW x \in Nat, NEW f \in Int
  PROVE  /\ Append(w, x) \in Seq(Nat)
         /\ Counted(Append(w, x), f) = Counted(w, f) + IF x > f THEN 1 ELSE 0
<1> DEFINE v == Append(w, x)
           n == Len(w)
           S == {i \in DOMAIN w : w[i] > f}
           T == {i \in DOMAIN v : v[i] > f}
<1>1. /\ v \in Seq(Nat) /\ n \in Nat /\ DOMAIN w = 1 .. n /\ DOMAIN v = 1 .. n + 1
      /\ v[n + 1] = x /\ \A i \in 1 .. n : v[i] = w[i]
  OBVIOUS
<1>2. IsFiniteSet(S) /\ Cardinality(S) \in Nat
  BY CountedIsNumber DEF Counted
<1> HIDE DEF v, n
<1>3. CASE x > f
  <2>1. T = S \cup {n + 1} /\ n + 1 \notin S
    BY <1>1, <1>3
  <2> HIDE DEF S, T
  <2>2. Cardinality(T) = Cardinality(S) + 1
    BY <1>2, <2>1, FS_AddElement
  <2> QED
    BY <1>1, <1>3, <2>2 DEF Counted, S, T, v
<1>4. CASE ~ (x > f)
  <2>1. T = S
    BY <1>1, <1>4
  <2> HIDE DEF S, T
  <2>2. Cardinality(T) = Cardinality(S) + 0
    BY <1>2, <2>1
  <2> QED
    BY <1>1, <1>4, <2>2 DEF Counted, S, T, v
<1> QED
  BY <1>3, <1>4

\* One request more.
LEMMA WereOneMore ==
  ASSUME NEW rec, IsFiniteSet(rec), NEW r, r \notin rec, NEW c, NEW f
  PROVE  /\ Were(rec, c, f) \in Nat
         /\ Were(rec \cup {r}, c, f) = Were(rec, c, f) + IF Site(r) = c /\ r.at > f THEN 1 ELSE 0
<1> DEFINE S == {q \in rec : Site(q) = c /\ q.at > f}
           T == {q \in rec \cup {r} : Site(q) = c /\ q.at > f}
<1>1. IsFiniteSet(S) /\ Cardinality(S) \in Nat
  <2>1. S \in SUBSET rec
    OBVIOUS
  <2>2. IsFiniteSet(S)
    <3> HIDE DEF S
    <3> QED
      BY <2>1, FS_Subset
  <2> QED
    BY <2>2, FS_CardinalityType
<1>2. CASE Site(r) = c /\ r.at > f
  <2>1. T = S \cup {r} /\ r \notin S
    BY <1>2
  <2> HIDE DEF S, T
  <2>2. Cardinality(T) = Cardinality(S) + 1
    BY <1>1, <2>1, FS_AddElement
  <2> QED
    BY <1>1, <1>2, <2>2 DEF Were, S, T
<1>3. CASE ~ (Site(r) = c /\ r.at > f)
  <2>1. T = S
    BY <1>3
  <2> HIDE DEF S, T
  <2>2. Cardinality(T) = Cardinality(S) + 0
    BY <1>1, <2>1
  <2> QED
    BY <1>1, <1>3, <2>2 DEF Were, S, T
<1> QED
  BY <1>2, <1>3

\* The times of a cell are those of its requests, but for those that leave the window
\* while a consumer is late; no time is older than the last by more than that.
Fits(ts, m, c, rec) ==
  /\ ts \in Seq(Nat)
  /\ \A i \in DOMAIN ts : ts[i] <= m
  /\ \A i, j \in DOMAIN ts : j < i => ts[j] <= ts[i] + Late
  /\ \A f \in Int : /\ Counted(ts, f) <= Were(rec, c, f)
                    /\ f >= m - Kept + Late => Counted(ts, f) = Were(rec, c, f)

\* The parts make the whole.
LEMMA FitsIs ==
  ASSUME NEW ts \in Seq(Nat), NEW m, NEW c, NEW rec,
         \A i \in DOMAIN ts : ts[i] <= m,
         \A i, j \in DOMAIN ts : j < i => ts[j] <= ts[i] + Late,
         \A f \in Int : /\ Counted(ts, f) <= Were(rec, c, f)
                        /\ f >= m - Kept + Late => Counted(ts, f) = Were(rec, c, f)
  PROVE  Fits(ts, m, c, rec)
BY DEF Fits

\* Who asked in a cell at a time is one of those who did.
AskedAlso(rec, all, c, x) ==
  \A f \in Int : /\ Were(rec, c, f) \in Nat
                 /\ Were(all, c, f) = Were(rec, c, f) + IF x > f THEN 1 ELSE 0

\* A request of the cell is recorded.
LEMMA AppendedFits ==
  ASSUME NEW ts, NEW m \in Nat, NEW c, NEW rec, NEW all, NEW x \in Nat, x <= m, m <= x + Late,
         AskedAlso(rec, all, c, x), Fits(ts, m, c, rec)
  PROVE  Fits(Append(De!Since(ts, x, Kept), x), m, c, all)
<1> DEFINE w == De!Since(ts, x, Kept)
           v == Append(w, x)
           n == Counted(ts, x - Kept)
           K == {i \in DOMAIN ts : ts[i] > x - Kept}
<1>0. Kept \in Nat /\ Late \in Nat /\ ts \in Seq(Nat)
  BY DemandAssumption DEF Fits
<1>1. /\ n \in Nat /\ w \in Seq(Nat) /\ Len(w) = n
  BY <1>0, SinceIs, Zenon
<1>2. PICK place \in [1 .. n -> K] :
        /\ \A i, j \in 1 .. n : i < j => place[i] < place[j]
        /\ \A i \in 1 .. n : w[i] = ts[place[i]]
  <2>1. \E place \in [1 .. n -> K] :
           /\ \A i, j \in 1 .. n : i < j => place[i] < place[j]
           /\ \A y \in K : \E i \in 1 .. n : place[i] = y
           /\ \A i \in 1 .. n : w[i] = ts[place[i]]
    BY <1>0, SinceIs, Zenon
  <2> HIDE DEF n, w, K
  <2> QED
    BY <2>1
<1> HIDE DEF n, w
<1>3. \A i \in 1 .. n : place[i] \in DOMAIN ts
  BY <1>2
<1>4. /\ v \in Seq(Nat) /\ DOMAIN v = 1 .. n + 1 /\ v[n + 1] = x
      /\ \A i \in 1 .. n : v[i] = ts[place[i]] /\ v[i] \in Nat
  <2>1. /\ v \in Seq(Nat) /\ DOMAIN v = 1 .. n + 1 /\ v[n + 1] = x
        /\ \A i \in 1 .. n : v[i] = w[i] /\ w[i] \in Nat
    BY <1>1
  <2> HIDE DEF v
  <2> QED
    BY <1>2, <2>1
<1> HIDE DEF K, v
<1>5. \A i \in DOMAIN v : v[i] <= m
  <2>1. \A i \in 1 .. n : v[i] <= m
    BY <1>3, <1>4 DEF Fits
  <2> QED
    BY <1>1, <1>4, <2>1
<1>6. \A i, j \in DOMAIN v : j < i => v[j] <= v[i] + Late
  <2> SUFFICES ASSUME NEW i \in 1 .. n + 1, NEW j \in 1 .. n, j < i PROVE v[j] <= v[i] + Late
    BY <1>1, <1>4
  <2>1. CASE i = n + 1
    <3>1. v[i] = x /\ v[j] \in Nat /\ j \in DOMAIN v
      BY <1>1, <1>4, <2>1
    <3>2. v[j] <= m
      BY <1>5, <3>1
    <3> QED
      BY <1>0, <3>1, <3>2
  <2>2. CASE i \in 1 .. n
    <3>1. place[j] < place[i] /\ place[i] \in DOMAIN ts /\ place[j] \in DOMAIN ts
      BY <1>2, <1>3, <2>2
    <3> QED
      BY <1>4, <2>2, <3>1 DEF Fits
  <2> QED
    BY <1>1, <2>1, <2>2
<1>7. ASSUME NEW f \in Int
      PROVE  /\ Counted(v, f) <= Were(all, c, f)
             /\ f >= m - Kept + Late => Counted(v, f) = Were(all, c, f)
  <2>1. PICK more \in {0, 1} :
          /\ more = IF x > f THEN 1 ELSE 0
          /\ Counted(v, f) = Counted(w, f) + more
          /\ Were(all, c, f) = Were(rec, c, f) + more /\ Were(rec, c, f) \in Nat
    <3>1. Counted(v, f) = Counted(w, f) + IF x > f THEN 1 ELSE 0
      BY <1>0, <1>1, AppendCounts DEF v
    <3>2. /\ Were(all, c, f) = Were(rec, c, f) + IF x > f THEN 1 ELSE 0
          /\ Were(rec, c, f) \in Nat
      BY DEF AskedAlso
    <3> QED
      BY <3>1, <3>2
  <2>2. PICK a \in Nat, b \in Nat : a = Counted(w, f) /\ b = Counted(ts, f)
    <3>1. Counted(w, f) \in Nat
      BY <1>1, CountedIsNumber
    <3>2. Counted(ts, f) \in Nat
      BY <1>0, CountedIsNumber
    <3> QED
      BY <3>1, <3>2
  <2>3. a <= b /\ (f >= x - Kept => a = b)
    BY <1>0, <2>2, SinceCounts DEF w
  <2>4. b <= Were(rec, c, f) /\ (f >= m - Kept + Late => b = Were(rec, c, f))
    BY <2>2 DEF Fits
  <2>5. f >= m - Kept + Late => f >= x - Kept
    BY <1>0
  <2> QED
    <3>1. PICK wr \in Nat : wr = Were(rec, c, f)
      BY <2>1
    <3>2. Counted(v, f) = a + more /\ Were(all, c, f) = wr + more
      BY <2>1, <2>2, <3>1
    <3>3. a <= b /\ b <= wr /\ (f >= m - Kept + Late => a = b /\ b = wr)
      BY <2>3, <2>4, <2>5, <3>1
    <3> QED
      BY <3>2, <3>3
<1> QED
  BY <1>4, <1>5, <1>6, <1>7 DEF Fits, v, w

\* A request elsewhere is none of the cell's.
LEMMA WereNoMore ==
  ASSUME NEW rec, IsFiniteSet(rec), NEW r, r \notin rec, NEW c, NEW f, Site(r) # c
  PROVE  Were(rec \cup {r}, c, f) = Were(rec, c, f)
<1>1. {q \in rec \cup {r} : Site(q) = c /\ q.at > f} = {q \in rec : Site(q) = c /\ q.at > f}
  OBVIOUS
<1> QED
  BY <1>1 DEF Were

\* A request of another cell is recorded.
LEMMA OtherFits ==
  ASSUME NEW ts, NEW m, NEW c, NEW rec, IsFiniteSet(rec), NEW r, r \notin rec,
         Site(r) # c, Fits(ts, m, c, rec)
  PROVE  Fits(ts, m, c, rec \cup {r})
<1>1. \A f \in Int : Were(rec \cup {r}, c, f) = Were(rec, c, f)
  BY WereNoMore
<1> QED
  BY <1>1 DEF Fits

\* A cell whose last time is old has none that is young.
LEMMA ColdFits ==
  ASSUME NEW ts, NEW m \in Nat, NEW c, NEW rec, IsFiniteSet(rec), NEW t \in Nat, t <= m,
         Fits(ts, m, c, rec), ts = << >> \/ ts[Len(ts)] <= t - Kept
  PROVE  Fits(<< >>, m, c, rec)
<1>1. Kept \in Nat /\ Late \in Nat /\ ts \in Seq(Nat)
  BY DemandAssumption DEF Fits
<1>2. \A f \in Int : Counted(<< >>, f) = 0
  <2> SUFFICES ASSUME NEW f \in Int PROVE Counted(<< >>, f) = 0
    OBVIOUS
  <2>1. {i \in DOMAIN << >> : << >>[i] > f} = {}
    OBVIOUS
  <2> QED
    BY <2>1, FS_EmptySet DEF Counted
<1>3. ASSUME NEW f \in Int, f >= m - Kept + Late
      PROVE  Counted(ts, f) = 0
  <2>1. \A i \in DOMAIN ts : ~ (ts[i] > f)
    <3> SUFFICES ASSUME NEW i \in DOMAIN ts PROVE ts[i] <= f
      BY <1>1
    <3>1. /\ DOMAIN ts = 1 .. Len(ts) /\ Len(ts) \in Nat /\ i \in 1 .. Len(ts)
          /\ ts[i] \in Nat /\ ts # << >>
      BY <1>1
    <3>2. Len(ts) \in DOMAIN ts /\ ts[Len(ts)] \in Nat
      BY <1>1, <3>1
    <3>3. ts[i] <= ts[Len(ts)] + Late
      BY <1>1, <3>1, <3>2 DEF Fits
    <3>4. ts[Len(ts)] <= t - Kept
      BY <3>1
    <3> QED
      BY <1>1, <1>3, <3>1, <3>2, <3>3, <3>4
  <2>2. {i \in DOMAIN ts : ts[i] > f} = {}
    BY <2>1
  <2> QED
    BY <2>2, FS_EmptySet DEF Counted
<1>4. \A f \in Int : Were(rec, c, f) \in Nat
  <2> SUFFICES ASSUME NEW f \in Int PROVE Were(rec, c, f) \in Nat
    OBVIOUS
  <2> DEFINE S == {q \in rec : Site(q) = c /\ q.at > f}
  <2>1. S \in SUBSET rec
    OBVIOUS
  <2> HIDE DEF S
  <2>2. Cardinality(S) \in Nat
    BY <2>1, FS_Subset, FS_CardinalityType
  <2> QED
    BY <2>2 DEF S, Were
<1>5. \A f \in Int : /\ Counted(<< >>, f) <= Were(rec, c, f)
                     /\ f >= m - Kept + Late => Counted(<< >>, f) = Were(rec, c, f)
  BY <1>2, <1>3, <1>4 DEF Fits
<1> QED
  BY <1>5 DEF Fits

\* Requests are numbered, and recorded while a consumer may still be late; what is kept
\* of a cell fits those that are recorded.
DemandInv ==
  /\ minute \in Nat /\ minute > Kept
  /\ DOMAIN demand = Processes /\ \A p \in Processes : DOMAIN demand[p] = Cells
  /\ IsFiniteSet(pending) /\ IsFiniteSet(recorded) /\ pending \cap recorded = {}
  /\ \A r \in pending \cup recorded : r.number \in Nat /\ r.number <= Cardinality(pending \cup recorded)
  /\ \A r \in pending : /\ r.by \in Processes /\ r.cell \in Cells /\ r.at \in Nat
                          /\ r.at <= minute /\ minute <= r.at + Late
  /\ \A p \in Processes, c \in Cells : Fits(demand[p][c], minute, <<p, c>>, recorded)

\* Each consumer takes the next number.
LEMMA RequestedStep ==
  ASSUME DemandInv, NEW p \in Processes, NEW c \in Cells, De!Requested(p, c)
  PROVE  DemandInv'
<1> DEFINE all == pending \cup recorded
           n == Cardinality(all) + 1
           r == [number |-> n, by |-> p, cell |-> c, at |-> minute]
<1>1. IsFiniteSet(all) /\ Cardinality(all) \in Nat
  BY FS_Union, FS_CardinalityType DEF DemandInv
<1>2. /\ pending' = pending \cup {r} /\ minute' = minute /\ demand' = demand /\ recorded' = recorded
  <2>1. De!Cardinality(all) = Cardinality(all)
    BY DEF De!Cardinality, Cardinality
  <2> QED
    BY <2>1 DEF De!Requested
<1>3. r.number = n /\ r.by = p /\ r.cell = c /\ r.at = minute /\ n \in Nat
  BY <1>1
<1> HIDE DEF r
<1>4. r \notin all
  BY <1>1, <1>3 DEF DemandInv
<1>5. pending' \cup recorded' = all \cup {r} /\ Cardinality(all \cup {r}) = n
  <2> HIDE DEF all
  <2>1. Cardinality(all \cup {r}) = Cardinality(all) + 1
    BY <1>1, <1>4, FS_AddElement
  <2> QED
    BY <1>2, <2>1 DEF all
<1>6. IsFiniteSet(pending') /\ IsFiniteSet(recorded') /\ pending' \cap recorded' = {}
  BY <1>2, <1>4, FS_AddElement DEF DemandInv
<1>7. \A q \in pending' \cup recorded' : q.number \in Nat /\ q.number <= Cardinality(pending' \cup recorded')
  <2>1. \A q \in all : q.number \in Nat /\ q.number <= Cardinality(all)
    BY DEF DemandInv
  <2>2. pending' \cup recorded' = all \cup {r}
    BY <1>5
  <2>3. Cardinality(pending' \cup recorded') = n /\ n = Cardinality(all) + 1
    BY <1>5
  <2> HIDE DEF all, n
  <2>4. ASSUME NEW q \in all PROVE q.number \in Nat /\ q.number <= n
    BY <1>1, <2>1, <2>3
  <2> QED
    BY <1>3, <2>2, <2>3, <2>4
<1>8. \A q \in pending' : /\ q.by \in Processes /\ q.cell \in Cells /\ q.at \in Nat
                           /\ q.at <= minute' /\ minute' <= q.at + Late
  BY <1>2, <1>3, DemandAssumption DEF DemandInv
<1>9. \A o \in Processes, d \in Cells : Fits(demand'[o][d], minute', <<o, d>>, recorded')
  BY <1>2 DEF DemandInv
<1> QED
  BY <1>2, <1>6, <1>7, <1>8, <1>9 DEF DemandInv

\* A consumer records its request, and now and then all cells of the process are looked at.
LEMMA RecordStep ==
  ASSUME DemandInv, NEW r \in pending, De!RecordRequest(r)
  PROVE  DemandInv'
<1> DEFINE own == demand[r.by]
           d == [own EXCEPT ![r.cell] = Append(De!Since(@, r.at, Kept), r.at)]
           all == recorded \cup {r}
<1>1. /\ r.cell \in Cells /\ r.at \in Nat /\ r.at <= minute /\ minute <= r.at + Late
      /\ minute \in Nat /\ r \notin recorded /\ IsFiniteSet(recorded) /\ IsFiniteSet(all)
      /\ r.by \in Processes
  BY FS_AddElement DEF DemandInv
<1>2. minute' = minute /\ pending' = pending \ {r} /\ recorded' = all
  BY DEF De!RecordRequest
<1>3. /\ demand'[r.by] = d \/ demand'[r.by] = De!SweepCells(d, r.at)
      /\ \A p \in Processes : p # r.by => demand'[p] = demand[p]
      /\ DOMAIN demand' = Processes
  BY <1>1 DEF De!RecordRequest, DemandInv
<1>s. \A p, c : Site(r) = <<p, c>> <=> p = r.by /\ c = r.cell
  BY DEF Site
<1>4. ASSUME NEW c \in Cells
      PROVE  Fits(d[c], minute, <<r.by, c>>, all)
  <2> PICK k : k = <<r.by, c>>
    OBVIOUS
  <2>1. Fits(own[c], minute, k, recorded)
    BY <1>1 DEF DemandInv
  <2>2. CASE c = r.cell
    <3>1. d[c] = Append(De!Since(own[c], r.at, Kept), r.at)
      BY <1>1, <2>2 DEF DemandInv
    <3>2. AskedAlso(recorded, all, k, r.at)
      <4>1. \A f \in Int : /\ Were(recorded, k, f) \in Nat
                           /\ Were(recorded \cup {r}, k, f) = Were(recorded, k, f) + IF Site(r) = k /\ r.at > f THEN 1 ELSE 0
        BY <1>1, WereOneMore
      <4>2. Site(r) = k
        BY <1>s, <2>2
      <4> QED
        BY <4>1, <4>2 DEF AskedAlso
    <3>3. PICK x \in Nat : x = r.at
      BY <1>1
    <3>4. Fits(Append(De!Since(own[c], x, Kept), x), minute, k, all)
      <4>1. AskedAlso(recorded, all, k, x) /\ x <= minute /\ minute <= x + Late /\ minute \in Nat
        BY <1>1, <3>2, <3>3
      <4> HIDE DEF all, d, own
      <4> QED
        BY <2>1, <4>1, AppendedFits
    <3> QED
      BY <3>1, <3>3, <3>4
  <2>3. CASE c # r.cell
    <3>1. d[c] = own[c]
      BY <1>1, <2>3 DEF DemandInv
    <3>2. Site(r) # k
      BY <1>s, <2>3
    <3>3. PICK ts : ts = own[c]
      OBVIOUS
    <3>4. Fits(ts, minute, k, recorded)
      BY <2>1, <3>3
    <3>5. Fits(ts, minute, k, all)
      <4> HIDE DEF own, d
      <4> QED
        BY <1>1, <3>2, <3>4, OtherFits
    <3> QED
      BY <3>1, <3>3, <3>5
  <2> QED
    BY <2>2, <2>3
<1>5. DOMAIN d = Cells
  BY <1>1 DEF DemandInv
<1> HIDE DEF d, all, own
<1>6. ASSUME NEW c \in Cells
      PROVE  Fits(demand'[r.by][c], minute, <<r.by, c>>, all)
  <2>1. CASE demand'[r.by] = d
    BY <1>4, <2>1
  <2>2. CASE demand'[r.by] = De!SweepCells(d, r.at)
    <3>1. demand'[r.by][c] = IF d[c] # << >> /\ De!Last(d[c]) > r.at - Kept THEN d[c] ELSE << >>
      BY <2>2 DEF De!SweepCells
    <3>2. CASE d[c] # << >> /\ De!Last(d[c]) > r.at - Kept
      BY <1>4, <3>1, <3>2
    <3>3. CASE ~ (d[c] # << >> /\ De!Last(d[c]) > r.at - Kept)
      <4>1. d[c] = << >> \/ d[c][Len(d[c])] <= r.at - Kept
        <5>1. d[c] \in Seq(Nat)
          BY <1>4 DEF Fits
        <5>2. CASE d[c] # << >>
          <6>1. d[c][Len(d[c])] \in Nat /\ De!Last(d[c]) = d[c][Len(d[c])]
            BY <5>1, <5>2 DEF De!Last
          <6>2. ~ (d[c][Len(d[c])] > r.at - Kept)
            BY <3>3, <5>2, <6>1
          <6> QED
            BY <1>1, <6>1, <6>2, DemandAssumption
        <5> QED
          BY <5>2
      <4>2. Fits(<< >>, minute, <<r.by, c>>, all)
        <5> PICK k, ts, t : k = <<r.by, c>> /\ ts = d[c] /\ t = r.at /\ t \in Nat
          BY <1>1
        <5>1. /\ Fits(ts, minute, k, all) /\ minute \in Nat /\ t <= minute /\ IsFiniteSet(all)
              /\ ts = << >> \/ ts[Len(ts)] <= t - Kept
          BY <1>1, <1>4, <4>1
        <5> QED
          BY <5>1, ColdFits
      <4> QED
        BY <3>1, <3>3, <4>2
    <3> QED
      BY <3>2, <3>3
  <2> QED
    BY <1>3, <2>1, <2>2
<1>7. /\ DOMAIN demand' = Processes
      /\ \A p \in Processes : DOMAIN demand'[p] = Cells
  BY <1>3, <1>5 DEF De!SweepCells, DemandInv
<1>o. ASSUME NEW p \in Processes, NEW c \in Cells
      PROVE  Fits(demand'[p][c], minute, <<p, c>>, all)
  <2>1. CASE p # r.by
    <3> PICK k, ts : k = <<p, c>> /\ ts = demand[p][c]
      OBVIOUS
    <3>1. Fits(ts, minute, k, recorded) /\ Site(r) # k /\ demand'[p][c] = ts
      BY <1>3, <1>s, <2>1 DEF DemandInv
    <3> QED
      BY <1>1, <3>1, OtherFits DEF all
  <2> QED
    BY <1>6, <2>1
<1>8. /\ IsFiniteSet(pending') /\ IsFiniteSet(recorded') /\ pending' \cap recorded' = {}
      /\ pending' \cup recorded' = pending \cup recorded
  BY <1>1, <1>2, FS_RemoveElement DEF DemandInv, all
<1>9. \A q \in pending' \cup recorded' : q.number \in Nat /\ q.number <= Cardinality(pending' \cup recorded')
  BY <1>8 DEF DemandInv
<1>10. \A q \in pending' : /\ q.by \in Processes /\ q.cell \in Cells /\ q.at \in Nat
                            /\ q.at <= minute' /\ minute' <= q.at + Late
  BY <1>2 DEF DemandInv
<1>11. minute' \in Nat /\ minute' > Kept
  BY <1>2 DEF DemandInv
<1> QED
  BY <1>2, <1>o, <1>7, <1>8, <1>9, <1>10, <1>11 DEF DemandInv

\* The invariant of the demand.
LEMMA DemandStep ==
  ASSUME DemandInv, [MarketNext]_marketVars
  PROVE  DemandInv'
<1>1. ASSUME NEW p \in Processes, NEW c \in Cells, De!Requested(p, c) PROVE DemandInv'
  BY <1>1, RequestedStep
<1>2. ASSUME NEW r \in pending, De!RecordRequest(r) PROVE DemandInv'
  BY <1>2, RecordStep
<1>3. CASE De!Minute
  <2>1. /\ minute \in Nat /\ minute' = minute + 1 /\ pending' = pending /\ demand' = demand /\ recorded' = recorded
        /\ \A r \in pending : minute < r.at + Late
    BY <1>3 DEF De!Minute, DemandInv
  <2>2. Kept \in Nat /\ Late \in Nat
    BY DemandAssumption
  <2>3. ASSUME NEW p \in Processes, NEW c \in Cells
        PROVE  Fits(demand[p][c], minute + 1, <<p, c>>, recorded)
    <3> PICK ts, k : ts = demand[p][c] /\ k = <<p, c>>
      OBVIOUS
    <3>1. Fits(ts, minute, k, recorded)
      BY DEF DemandInv
    <3>2. \A i \in DOMAIN ts : ts[i] <= minute + 1
      BY <2>1, <3>1 DEF Fits
    <3>3. \A f \in Int : f >= (minute + 1) - Kept + Late => f >= minute - Kept + Late
      BY <2>1, <2>2
    <3> DEFINE num(f) == Counted(ts, f)
               were(f) == Were(recorded, k, f)
    <3>4. \A f \in Int : num(f) <= were(f) /\ (f >= minute - Kept + Late => num(f) = were(f))
      BY <3>1 DEF Fits
    <3>5. /\ ts \in Seq(Nat)
          /\ \A i, j \in DOMAIN ts : j < i => ts[j] <= ts[i] + Late
      BY <3>1 DEF Fits
    <3> HIDE DEF num, were
    <3>6. \A f \in Int : num(f) <= were(f) /\ (f >= (minute + 1) - Kept + Late => num(f) = were(f))
      BY <3>3, <3>4
    <3>7. \A f \in Int : Counted(ts, f) <= Were(recorded, k, f)
                         /\ (f >= (minute + 1) - Kept + Late => Counted(ts, f) = Were(recorded, k, f))
      BY <3>6 DEF num, were
    <3>8. Fits(ts, minute + 1, k, recorded)
      BY <3>2, <3>5, <3>7, FitsIs
    <3> QED
      BY <3>8
  <2>4. \A r \in pending : /\ r.by \in Processes /\ r.cell \in Cells /\ r.at \in Nat
                           /\ r.at <= minute + 1 /\ minute + 1 <= r.at + Late
    BY <2>1, <2>2 DEF DemandInv
  <2>5. minute + 1 \in Nat /\ minute + 1 > Kept
    BY <2>1, <2>2 DEF DemandInv
  <2> QED
    BY <2>1, <2>3, <2>4, <2>5 DEF DemandInv
<1>4. CASE UNCHANGED demands
  BY <1>4 DEF demands, DemandInv
<1>5. CASE De!DemandNext
  BY <1>1, <1>2, <1>3, <1>5 DEF De!DemandNext
<1> QED
  BY <1>4, <1>5 DEF MarketNext, marketVars

\* What surge may come to.
Levels == {1000, 1200, 1400, 1700, 2000}

\* Of more of them the highest is higher.
LEMMA HigherOfMore ==
  ASSUME NEW A, NEW B, A \subseteq B, B \subseteq Levels, 1000 \in A
  PROVE  De!Max(A) \in Levels /\ De!Max(B) \in Levels /\ De!Max(A) <= De!Max(B)
<1>1. ASSUME NEW S, S \subseteq Levels, 1000 \in S
      PROVE  De!Max(S) \in S /\ \A y \in S : De!Max(S) >= y
  <2>1. \E x \in S : \A y \in S : x >= y
    <3>1. CASE 2000 \in S
      BY <1>1, <3>1 DEF Levels
    <3>2. CASE 2000 \notin S /\ 1700 \in S
      BY <1>1, <3>2 DEF Levels
    <3>3. CASE 2000 \notin S /\ 1700 \notin S /\ 1400 \in S
      BY <1>1, <3>3 DEF Levels
    <3>4. CASE 2000 \notin S /\ 1700 \notin S /\ 1400 \notin S /\ 1200 \in S
      BY <1>1, <3>4 DEF Levels
    <3>5. CASE 2000 \notin S /\ 1700 \notin S /\ 1400 \notin S /\ 1200 \notin S
      BY <1>1, <3>5 DEF Levels
    <3> QED
      BY <3>1, <3>2, <3>3, <3>4, <3>5
  <2>2. De!Max(S) = CHOOSE x \in S : \A y \in S : x >= y
    BY DEF De!Max
  <2> QED
    BY <2>1, <2>2
<1>2. 1000 \in B
  OBVIOUS
<1>3. De!Max(A) \in A /\ De!Max(B) \in B /\ \A y \in B : De!Max(B) >= y
  BY <1>1, <1>2
<1>4. De!Max(A) \in B
  BY <1>3
<1>5. De!Max(A) \in Levels /\ De!Max(B) \in Levels
  BY <1>3, <1>4
<1>6. \A x \in Levels : x \in Int
  BY DEF Levels
<1>7. De!Max(B) >= De!Max(A)
  BY <1>3, <1>4
<1>8. PICK x \in Int, y \in Int : x = De!Max(A) /\ y = De!Max(B)
  BY <1>5, <1>6
<1> QED
  BY <1>5, <1>7, <1>8

\* Surge rises with the requests and falls with the drivers.
LEMMA SurgeFollowsDemand ==
  ASSUME NEW n \in Nat, NEW all \in Nat, n <= all, NEW supply \in 0 .. 2
  PROVE  De!SurgePermille(n, supply, 2000) \in
           De!SurgePermille(n, supply + 1, 2000) .. De!SurgePermille(all, supply, 2000)
<1> DEFINE reached(k, m) == {s \in De!Steps : k * 10 >= s[1] * m}
           T(k, m) == {1000} \cup {s[2] : s \in reached(k, m)}
<1>1. \A s \in De!Steps : s[1] \in Nat /\ s[2] \in Levels
  BY DEF De!Steps, Levels
<1>2. \A x \in Int : De!Max({x, 1}) = IF x >= 1 THEN x ELSE 1
  <2> SUFFICES ASSUME NEW x \in Int PROVE De!Max({x, 1}) = IF x >= 1 THEN x ELSE 1
    OBVIOUS
  <2>1. PICK m \in {x, 1} : m = (IF x >= 1 THEN x ELSE 1) /\ \A y \in {x, 1} : m >= y
    OBVIOUS
  <2>2. \A z \in {x, 1} : (\A y \in {x, 1} : z >= y) => z = m
    BY <2>1
  <2>3. De!Max({x, 1}) = m
    BY <2>1, <2>2 DEF De!Max
  <2> QED
    BY <2>1, <2>3
<1>3. PICK m \in Nat, o \in Nat : /\ m = De!Max({supply, 1}) /\ o = De!Max({supply + 1, 1})
                                  /\ m <= o
  <2>1. supply \in Int /\ supply + 1 \in Int
    OBVIOUS
  <2>2. /\ De!Max({supply, 1}) = IF supply >= 1 THEN supply ELSE 1
        /\ De!Max({supply + 1, 1}) = IF supply + 1 >= 1 THEN supply + 1 ELSE 1
    BY <1>2, <2>1
  <2> QED
    BY <2>2
<1>4. ASSUME NEW k \in Nat, NEW l \in Nat, NEW p \in Nat, NEW q \in Nat, k <= l, q <= p
      PROVE  T(k, p) \subseteq T(l, q) /\ T(l, q) \subseteq Levels /\ 1000 \in T(k, p)
  <2>1. ASSUME NEW s \in De!Steps, k * 10 >= s[1] * p PROVE l * 10 >= s[1] * q
    <3>1. PICK a \in Nat : a = s[1]
      BY <1>1
    <3>2. a * q <= a * p
      BY <1>4
    <3>3. PICK x \in Nat, y \in Nat : x = a * p /\ y = a * q
      OBVIOUS
    <3> QED
      BY <1>4, <2>1, <3>1, <3>2, <3>3
  <2>2. reached(k, p) \subseteq reached(l, q)
    BY <2>1
  <2>3. \A s \in reached(l, q) : s[2] \in Levels
    BY <1>1
  <2> HIDE DEF reached
  <2> QED
    BY <2>2, <2>3 DEF Levels
<1> HIDE DEF T
<1>5. /\ De!Max(T(n, o)) \in Levels /\ De!Max(T(n, m)) \in Levels /\ De!Max(T(all, m)) \in Levels
      /\ De!Max(T(n, o)) <= De!Max(T(n, m)) /\ De!Max(T(n, m)) <= De!Max(T(all, m))
  <2>1. T(n, o) \subseteq T(n, m) /\ T(n, m) \subseteq Levels /\ 1000 \in T(n, o)
    <3>1. n <= n /\ m \in Nat /\ o \in Nat /\ m <= o
      BY <1>3
    <3> QED
      BY <1>4, <3>1
  <2>2. T(n, m) \subseteq T(all, m) /\ T(all, m) \subseteq Levels /\ 1000 \in T(n, m)
    <3>1. m <= m /\ m \in Nat /\ n <= all
      BY <1>3
    <3> QED
      BY <1>4, <3>1
  <2> QED
    BY <2>1, <2>2, HigherOfMore
<1>6. \A x \in Levels : De!Min({2000, x}) = x
  <2> SUFFICES ASSUME NEW x \in Levels PROVE De!Min({2000, x}) = x
    OBVIOUS
  <2>1. x \in Int /\ x <= 2000
    BY DEF Levels
  <2>2. \A z \in {2000, x} : (\A y \in {2000, x} : z <= y) <=> z = x
    BY <2>1
  <2> QED
    BY <2>2 DEF De!Min
<1>7. /\ De!SurgePermille(n, supply, 2000) = De!Min({2000, De!Max(T(n, m))})
      /\ De!SurgePermille(n, supply + 1, 2000) = De!Min({2000, De!Max(T(n, o))})
      /\ De!SurgePermille(all, supply, 2000) = De!Min({2000, De!Max(T(all, m))})
  BY <1>3 DEF De!SurgePermille, T
<1>8. \A x \in Levels : x \in Int
  BY DEF Levels
<1>9. PICK x \in Int, y \in Int, z \in Int : /\ x = De!SurgePermille(n, supply, 2000)
                                             /\ y = De!SurgePermille(n, supply + 1, 2000)
                                             /\ z = De!SurgePermille(all, supply, 2000)
                                             /\ y <= x /\ x <= z
  BY <1>5, <1>6, <1>7, <1>8
<1> QED
  BY <1>9

\* What a quote counts is what its process was given.
LEMMA CountIsTrue ==
  ASSUME DemandInv
  PROVE  De!DemandIsCounted
<1> SUFFICES ASSUME NEW p \in Processes, NEW c \in Cells, NEW span \in 1 .. Kept
             PROVE  LET n == De!Count(p, c, span)
                        own == De!Truly(p, c, minute - span)
                    IN  /\ n \in De!Truly(p, c, minute - span + Late) .. own
                        /\ \A supply \in 0 .. 2 :
                             De!SurgePermille(n, supply, 2000) \in
                               De!SurgePermille(n, supply + 1, 2000) .. De!SurgePermille(own, supply, 2000)
  BY DEF De!DemandIsCounted
<1> DEFINE ts == demand[p][c]
           from == minute - span
           k == <<p, c>>
<1>1. /\ Kept \in Nat /\ Late \in Nat /\ minute \in Nat /\ from \in Int /\ from + Late \in Int
      /\ from + Late >= minute - Kept + Late /\ from <= from + Late /\ span \in Nat
  BY DemandAssumption DEF DemandInv
<1>2. Fits(ts, minute, k, recorded)
  BY DEF DemandInv
<1>3. ts \in Seq(Nat)
  BY <1>2 DEF Fits
<1>4. De!Count(p, c, span) = Counted(ts, from)
  <2>1. Len(De!Since(ts, minute, span)) = Counted(ts, from)
    BY <1>1, <1>3, SinceLength
  <2> QED
    BY <2>1 DEF De!Count
<1>5. \A f \in Int : De!Truly(p, c, f) = Were(recorded, k, f)
  <2>1. \A S : De!Cardinality(S) = Cardinality(S)
    BY DEF De!Cardinality, Cardinality
  <2> SUFFICES ASSUME NEW f \in Int PROVE De!Truly(p, c, f) = Were(recorded, k, f)
    OBVIOUS
  <2>2. {r \in recorded : r.by = p /\ r.cell = c /\ r.at > f} = {r \in recorded : Site(r) = k /\ r.at > f}
    BY DEF Site
  <2> QED
    BY <2>1, <2>2 DEF De!Truly, Were
<1> HIDE DEF ts, from, k
<1>6. Counted(ts, from) <= Were(recorded, k, from)
  BY <1>1, <1>2 DEF Fits
<1>7. Counted(ts, from + Late) = Were(recorded, k, from + Late)
  BY <1>1, <1>2 DEF Fits
<1>8. Counted(ts, from + Late) <= Counted(ts, from) /\ Counted(ts, from) \in Nat /\ Counted(ts, from + Late) \in Nat
  BY <1>1, <1>3, CountedIsNumber
<1>9. Were(recorded, k, from) \in Nat
  <2> DEFINE S == {q \in recorded : Site(q) = k /\ q.at > from}
  <2>1. S \in SUBSET recorded /\ IsFiniteSet(recorded)
    BY DEF DemandInv
  <2> HIDE DEF S
  <2>2. Cardinality(S) \in Nat
    BY <2>1, FS_Subset, FS_CardinalityType
  <2> QED
    BY <2>2 DEF S, Were
<1>10. PICK n \in Nat, all \in Nat, old \in Nat :
         /\ n = De!Count(p, c, span) /\ all = De!Truly(p, c, from) /\ old = De!Truly(p, c, from + Late)
         /\ old <= n /\ n <= all
  <2>1. De!Truly(p, c, from) = Were(recorded, k, from) /\ De!Truly(p, c, from + Late) = Were(recorded, k, from + Late)
    BY <1>1, <1>5
  <2> QED
    BY <1>4, <1>6, <1>7, <1>8, <1>9, <2>1
<1>11. n \in old .. all
  BY <1>10
<1>12. \A supply \in 0 .. 2 : De!SurgePermille(n, supply, 2000) \in
                                De!SurgePermille(n, supply + 1, 2000) .. De!SurgePermille(all, supply, 2000)
  BY <1>10, SurgeFollowsDemand
<1> QED
  BY <1>10, <1>11, <1>12 DEF from

\* At first nothing is kept, and there was nothing.
LEMMA DemandAtFirst ==
  ASSUME De!DemandInit
  PROVE  DemandInv
<1>1. /\ minute = Kept + 1 /\ pending = {} /\ recorded = {}
      /\ demand = [p \in Processes |-> [c \in Cells |-> << >>]]
      /\ Kept \in Nat /\ Late \in Nat
  BY DemandAssumption DEF De!DemandInit
<1>2. \A c, f : Were({}, c, f) = 0 /\ Counted(<< >>, f) = 0
  <2> SUFFICES ASSUME NEW c, NEW f PROVE Were({}, c, f) = 0 /\ Counted(<< >>, f) = 0
    OBVIOUS
  <2>1. {r \in {} : Site(r) = c /\ r.at > f} = {}
    OBVIOUS
  <2>2. {i \in DOMAIN << >> : << >>[i] > f} = {}
    OBVIOUS
  <2> QED
    BY <2>1, <2>2, FS_EmptySet DEF Were, Counted
<1>3. \A c : Fits(<< >>, minute, c, {})
  BY <1>2 DEF Fits
<1>4. IsFiniteSet({})
  BY FS_EmptySet
<1> QED
  BY <1>1, <1>3, <1>4 DEF DemandInv

\* The quote that is shown was made by the tariff.
LEMMA FareInvariant == MarketSpec => []FareInv
<1>1. MarketInit => FareInv
  BY DEF MarketInit, Fa!FaresInit, FareInv
<1>2. FareInv /\ [MarketNext]_marketVars => FareInv'
  BY FareStep
<1> QED
  BY <1>1, <1>2, PTL DEF MarketSpec

\* The requests that are kept are those there were.
LEMMA DemandInvariant == MarketSpec => []DemandInv
<1>1. MarketInit => DemandInv
  BY DemandAtFirst DEF MarketInit
<1>2. DemandInv /\ [MarketNext]_marketVars => DemandInv'
  BY DemandStep
<1> QED
  BY <1>1, <1>2, PTL DEF MarketSpec

\* QuotesAreSound: a longer ride, the night, a larger vehicle and more demand cost no less,
\* and a step of surge no more than its share; surge follows the requests that the process
\* which makes the quote was given, less those that leave the window while a consumer is
\* late (pricing/service.go, surge.go; pkg/money).
THEOREM QuotesSound == MarketSpec => []QuotesAreSound
<1>1. FareInv => (part = "fares" => Fa!FareIsSound)
  BY FareOfQuote
<1>2. DemandInv => (part = "demand" => De!DemandIsCounted)
  BY CountIsTrue
<1>3. FareInv /\ DemandInv => QuotesAreSound
  BY <1>1, <1>2 DEF QuotesAreSound
<1> QED
  BY <1>3, FareInvariant, DemandInvariant, PTL
===============================================================================
