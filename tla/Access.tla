--------------------------------- MODULE Access ---------------------------------
(***************************************************************************)
(* Signing in and out (internal/identity, internal/platform/authn): a code *)
(* by SMS becomes a token, the token is checked at every request (and at   *)
(* every MQTT connection), and it ends by itself or by a revocation in     *)
(* Redis: of the token, or of all older tokens of the account.  Every      *)
(* request reads and writes in several steps.                              *)
(*                                                                         *)
(* Lives are counted in seconds of one clock.  Between reading the clock   *)
(* and the write that uses it pass at most Delay seconds, the time-outs of *)
(* the Redis client.                                                       *)
(***************************************************************************)
EXTENDS Naturals, FiniteSets

CONSTANTS
  Calls,        \* requests, numbered as they come
  Challenges,   \* codes that are sent
  Roles,        \* of "rider", "driver" and "admin"
  LastSecond,   \* the run ends here
  CodeTTL,      \* OTPTTL
  AccessTTL,    \* a token lives so long (ACCESS_TTL)
  RecordTTL,    \* a revocation of an account is kept so long (30 days)
  MaxAttempts,  \* MaxOTPAttempts
  Skew,         \* tokens so much older than a revocation are certainly meant
  Delay,
  AccessFaults  \* statements and calls that fail

VARIABLES
  second,
  challenges,   \* rows of otp_challenges
  sent,         \* challenges that have been sent
  accounts,     \* role -> the account of this phone: "none", "open", "blocked"
  tokens,       \* tokens that somebody holds, by the call that was given them
  calls,        \* call -> what it is and how far it is
  records,      \* token -> revoked by itself until then; 0: not
  cutoff,       \* role -> tokens issued before .at are revoked, until .until
  ended,        \* tokens whose holder has been told that they are signed out
  accessFaults

accessVars == <<second, challenges, sent, accounts, tokens, calls, records,
                cutoff, ended, accessFaults>>

NoCutoff == [at |-> 0, until |-> 0]

\* A token given out before is number 0.
First(role) == [jti |-> 0, role |-> role, iat |-> 0, exp |-> AccessTTL]

AccessInit ==
  /\ second = 0
  /\ challenges = {} /\ sent = {}
  /\ accounts \in [Roles -> {"none", "open", "blocked"}]
  /\ tokens = {First(r) : r \in {q \in Roles : accounts[q] = "open"}}
  /\ calls = [c \in Calls |-> [step |-> "new"]]
  /\ records = [c \in Calls \cup {0} |-> 0]
  /\ cutoff = [r \in Roles |-> NoCutoff]
  /\ ended = {} /\ accessFaults = 0

Fails == accessFaults < AccessFaults /\ accessFaults' = accessFaults + 1
Works == UNCHANGED accessFaults

Step(c, s) == calls' = [calls EXCEPT ![c] = s]
Done(c) == Step(c, [step |-> "done"])
Next1(c) == calls[c].step = "new" /\ \A b \in Calls : b < c => calls[b].step # "new"
At(c, s) == calls[c].step = s

-------------------------------------------------------------------------------
(* A code by SMS.                                                          *)

\* RequestOTP; whether it may be asked for at all is in Limits.  An error of the
\* sender leaves a challenge nobody has the code of.
RequestOTP(id, role) ==
  /\ id \notin sent
  /\ challenges' = challenges \cup
       {[id |-> id, role |-> role, attempts |-> 0, expires |-> second + CodeTTL]}
  /\ sent' = sent \cup {id}
  /\ UNCHANGED <<second, accounts, tokens, calls, records, cutoff, ended,
                 accessFaults>>

\* VerifyOTP, from the app or from the console: the challenge and the time.
GetChallenge(c, door) ==
  /\ Next1(c)
  /\ \E h \in challenges :
       Step(c, [step |-> "verify", door |-> door, seen |-> h, at |-> second])
  /\ Works
  /\ UNCHANGED <<second, challenges, sent, accounts, tokens, records, cutoff,
                 ended>>

Spent(c) == calls[c].at > calls[c].seen.expires \/ calls[c].seen.attempts >= MaxAttempts
Seen(c) == calls[c].seen.id
OtherChallenges(c) == {h \in challenges : h.id # Seen(c)}

\* The error of a DELETE or of SaveChallenge is dropped.
Refuse(c) ==
  /\ At(c, "verify") /\ Spent(c)
  /\ \/ challenges' = OtherChallenges(c) /\ Works
     \/ UNCHANGED challenges /\ Fails
  /\ Done(c)
  /\ UNCHANGED <<second, sent, accounts, tokens, records, cutoff, ended>>

\* The upsert writes the attempts that were read plus one, and inserts the row
\* again if it has been deleted since.
WrongCode(c) ==
  /\ At(c, "verify") /\ ~Spent(c)
  /\ \/ /\ challenges' = OtherChallenges(c) \cup {[calls[c].seen EXCEPT !.attempts = @ + 1]}
        /\ Works
     \/ UNCHANGED challenges /\ Fails
  /\ Done(c)
  /\ UNCHANGED <<second, sent, accounts, tokens, records, cutoff, ended>>

RightCode(c) ==
  /\ At(c, "verify") /\ ~Spent(c)
  /\ \/ challenges' = OtherChallenges(c) /\ Works
     \/ UNCHANGED challenges /\ Fails
  /\ calls' = [calls EXCEPT ![c].step = "right"]
  /\ UNCHANGED <<second, sent, accounts, tokens, records, cutoff, ended>>

\* UpsertAccount: one account per phone and role.
UpsertAccount(role) ==
  accounts' = [accounts EXCEPT ![role] = IF @ = "none" THEN "open" ELSE @]

\* The console gives a token out only to an admin; a blocked account gets none.
MayHave(door, role) ==
  accounts[role] # "blocked" /\ (door = "console" => role = "admin")

\* IssueWithID: the token is dated when the challenge was read.
Token(c) == [jti |-> c, role |-> calls[c].seen.role, iat |-> calls[c].at,
             exp |-> calls[c].at + AccessTTL]

Issue(c) ==
  /\ At(c, "right")
  /\ \/ /\ UpsertAccount(calls[c].seen.role) /\ Works
        /\ tokens' = IF MayHave(calls[c].door, calls[c].seen.role)
                     THEN tokens \cup {Token(c)} ELSE tokens
     \/ UNCHANGED <<accounts, tokens>> /\ Fails
  /\ Done(c)
  /\ UNCHANGED <<second, challenges, sent, records, cutoff, ended>>

\* SweepExpiredChallenges.
SweepExpiredChallenges ==
  /\ \E h \in challenges : h.expires < second
  /\ challenges' = {h \in challenges : h.expires >= second}
  /\ UNCHANGED <<second, sent, accounts, tokens, calls, records, cutoff, ended,
                 accessFaults>>

-------------------------------------------------------------------------------
(* Every request with a token, and what it is for.                         *)

\* The rest of a "use" is another component's.
Jobs == {"use", "logout", "logout_all"}

\* Parse: the signature is of this server, and the life is not over.
Parse(c, t, job) ==
  /\ Next1(c)
  /\ Step(c, IF second < t.exp THEN [step |-> "parsed", token |-> t, job |-> job, at |-> second]
             ELSE [step |-> "done"])
  /\ UNCHANGED <<second, challenges, sent, accounts, tokens, records, cutoff,
                 ended, accessFaults>>

\* A record that has run out is no longer there.
IsRevoked(t) ==
  \/ second < records[t.jti]
  \/ second < cutoff[t.role].until /\ t.iat + Skew < cutoff[t.role].at

\* A revocation reads the clock after it; a "use" is not followed any further.
Pass(c) ==
  IF calls[c].job = "use" THEN Step(c, [step |-> "used"])
  ELSE calls' = [calls EXCEPT ![c].step = "passed", ![c].at = second]

\* Mutant: a request passes when Redis does not answer.
RequireOpen(c) ==
  /\ At(c, "parsed")
  /\ \/ IsRevoked(calls[c].token) /\ Works /\ Done(c)
     \/ ~IsRevoked(calls[c].token) /\ Works /\ Pass(c)
     \/ Fails /\ Pass(c)
  /\ UNCHANGED <<second, challenges, sent, accounts, tokens, records, cutoff,
                 ended>>

\* Require, and checkRevoked for MQTT: without an answer the request is refused.
Require(c) ==
  /\ At(c, "parsed")
  /\ \/ IsRevoked(calls[c].token) /\ Works /\ Done(c)
     \/ ~IsRevoked(calls[c].token) /\ Works /\ Pass(c)
     \/ Fails /\ Done(c)
  /\ UNCHANGED <<second, challenges, sent, accounts, tokens, records, cutoff,
                 ended>>

Passed(c, job) == At(c, "passed") /\ calls[c].job = job

\* RevokeToken: the record lives as long as the token has left.
RevokeToken(c) ==
  LET t == calls[c].token
  IN  /\ Passed(c, "logout")
      /\ \/ /\ Works
            /\ records' = [records EXCEPT ![t.jti] =
                 IF t.exp > calls[c].at THEN second + (t.exp - calls[c].at) ELSE @]
            /\ ended' = ended \cup {t}
         \/ UNCHANGED <<records, ended>> /\ Fails
      /\ Done(c)
      /\ UNCHANGED <<second, challenges, sent, accounts, tokens, cutoff>>

\* RevokeAccount with the time read before the write, over what is there.
CutOff(c, role) ==
  /\ \/ /\ Works
        /\ cutoff' = [cutoff EXCEPT ![role] =
             [at |-> calls[c].at, until |-> second + RecordTTL]]
        /\ ended' = ended \cup
             {t \in tokens : t.role = role /\ t.iat + Skew + Delay < calls[c].at}
     \/ UNCHANGED <<cutoff, ended>> /\ Fails
  /\ Done(c)
  /\ UNCHANGED <<second, challenges, sent, accounts, tokens, records>>

RevokeAccount(c) == Passed(c, "logout_all") /\ CutOff(c, calls[c].token.role)

\* A rejected driver is signed out by the console.
BeginReject(c) ==
  /\ Next1(c) /\ "driver" \in Roles
  /\ Step(c, [step |-> "rejecting", at |-> second])
  /\ UNCHANGED <<second, challenges, sent, accounts, tokens, records, cutoff,
                 ended, accessFaults>>

RevokeRejected(c) == At(c, "rejecting") /\ CutOff(c, "driver")

\* No call waits longer than Delay for the write that uses the time it read.
Tick ==
  /\ second < LastSecond
  /\ \A c \in Calls :
       (calls[c].step \in {"verify", "right", "parsed", "passed", "rejecting"})
       => second < calls[c].at + Delay
  /\ second' = second + 1
  /\ UNCHANGED <<challenges, sent, accounts, tokens, calls, records, cutoff,
                 ended, accessFaults>>

AccessNext ==
  \/ \E id \in Challenges, role \in Roles : RequestOTP(id, role)
  \/ \E c \in Calls :
       \/ \E door \in {"app", "console"} : GetChallenge(c, door)
       \/ Refuse(c) \/ WrongCode(c) \/ RightCode(c) \/ Issue(c)
       \/ \E t \in tokens, job \in Jobs : Parse(c, t, job)
       \/ Require(c) \/ RevokeToken(c) \/ RevokeAccount(c)
       \/ BeginReject(c) \/ RevokeRejected(c)
  \/ SweepExpiredChallenges
  \/ Tick

AccessSpec == AccessInit /\ [][AccessNext]_accessVars

-------------------------------------------------------------------------------
AccessTypeOK ==
  /\ second \in 0 .. LastSecond /\ sent \subseteq Challenges
  /\ \A h \in challenges : h.id \in sent /\ h.attempts \in 0 .. MaxAttempts
  /\ ended \subseteq tokens
  /\ accessFaults \in 0 .. AccessFaults

\* Who has been told that a token is signed out, the token itself or, Skew and
\* Delay before, all tokens of the account, never sees it accepted again while it
\* lives: not when Redis fails, when a revocation is written late or over a newer
\* one, or when its record runs out (authn: Require, RevokeToken, RevokeAccount).
SignedOutStaysOut ==
  [][\A c \in Calls :
       ( /\ calls[c].step = "parsed" /\ calls'[c].step \in {"passed", "used"}
         /\ second < calls[c].token.exp )
       => calls[c].token \notin ended]_accessVars
===============================================================================
