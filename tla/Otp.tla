--------------------------------- MODULE Otp ---------------------------------
(***************************************************************************)
(* One-time passwords of one phone: src/apps/auth_users/otp.py and its     *)
(* views in src/api/v1/auth/views.py.                                      *)
(*                                                                         *)
(* Three Redis keys hold the state of a phone: the hash of its code and    *)
(* the counters of wrong guesses and of requests, each with a time to live.*)
(* A call reads and writes them one by one, without a transaction.  Time   *)
(* passes in ticks of OTP_TTL, five minutes.                               *)
(***************************************************************************)
EXTENDS Naturals, FiniteSets

CONSTANTS
    Callers,        \* threads that serve requests for the phone
    Codes,          \* the codes
    NoCode,         \* the key of the hash is not set
    LockTicks,      \* LOCK_TTL and
    RequestTicks,   \* REQUEST_TTL: three times OTP_TTL
    MaxAttempts,    \* MAX_VERIFY_ATTEMPTS = 3
    MaxRequests     \* MAX_OTP_REQUESTS = 3

ASSUME OtpAssumption ==
    /\ NoCode \notin Codes
    /\ {LockTicks, RequestTicks, MaxAttempts, MaxRequests} \subseteq Nat \ {0}

VARIABLES
    code,           \* what the key of the hash holds,
    codeTtl,        \* and its remaining time to live, 0 if it is not set
    attempts,       \* wrong guesses; 0 if the key is not set
    lockTtl,
    requests,       \* requests; 0 if the key is not set
    requestTtl,
    call,           \* of every thread, its next statement and its locals
    issued,         \* history: codes stored in the last RequestTicks ticks,
    guessed,        \* wrong guesses of the last LockTicks, since the last login,
    accepted,       \* codes of logins,
    disturbed       \* and whether two calls have ever disturbed

cache == << code, codeTtl, attempts, lockTtl, requests, requestTtl >>
otpHistory == << issued, guessed, accepted, disturbed >>
otp == << cache, call, otpHistory >>

NoCall == [at |-> "idle"]

OtpInit ==
    /\ code = NoCode /\ codeTtl = 0
    /\ attempts = 0 /\ lockTtl = 0
    /\ requests = 0 /\ requestTtl = 0
    /\ call = [c \in Callers |-> NoCall]
    /\ issued = {} /\ guessed = {}
    /\ accepted = {}
    /\ disturbed = FALSE

Calling(c, label) == call[c].at = label

Then(c, next) == call' = [call EXCEPT ![c] = next]

Receive(c, next) ==
    /\ Calling(c, "idle")
    /\ Then(c, next)
    /\ disturbed' = (disturbed \/ \E d \in Callers : ~ Calling(d, "idle"))
    /\ UNCHANGED << cache, issued, guessed, accepted >>

\* Events of a history: their age in ticks, and a number within the tick.
Event(span) == [age : 0 .. span - 1, nth : Nat]

ThisTick(events) == {e \in events : e.age = 0}

\* The histories are kept until they are of no more use.
Once(events) ==
    IF disturbed THEN events
    ELSE events \cup {[age |-> 0, nth |-> Cardinality(ThisTick(events)) + 1]}

-----------------------------------------------------------------------------
(* OTPRequestView: generate_otp *)

BeginRequest(c) == Receive(c, [at |-> "requests"])

ReadRequests(c) ==
    /\ Calling(c, "requests")
    /\ Then(c, IF requests >= MaxRequests THEN NoCall
                 ELSE [at |-> "store", requests |-> requests])
    /\ UNCHANGED << cache, otpHistory >>

\* A new code, so none that has been stored or typed before.
StoreCode(c) ==
    /\ Calling(c, "store")
    /\ \E new \in Codes \ {code} :
          /\ \A d \in Callers : "guess" \in DOMAIN call[d] => call[d].guess # new
          /\ code' = new
          /\ accepted' = accepted \ {new}
    /\ codeTtl' = 1
    /\ issued' = Once(issued)
    /\ Then(c, [at |-> "bump", requests |-> call[c].requests])
    /\ UNCHANGED << attempts, lockTtl, requests, requestTtl, guessed, disturbed >>

\* Not the code: the window starts with its first request.
BumpRequestsKeepingWindow(c) ==
    /\ Calling(c, "bump")
    /\ requests' = call[c].requests + 1
    /\ requestTtl' = IF requestTtl = 0 THEN RequestTicks ELSE requestTtl
    /\ Then(c, NoCall)
    /\ UNCHANGED << code, codeTtl, attempts, lockTtl, otpHistory >>

\* The time to live starts anew with every request.
BumpRequests(c) ==
    /\ Calling(c, "bump")
    /\ requests' = call[c].requests + 1
    /\ requestTtl' = RequestTicks
    /\ Then(c, NoCall)
    /\ UNCHANGED << code, codeTtl, attempts, lockTtl, otpHistory >>

-----------------------------------------------------------------------------
(* OTPVerifyView: verify_otp and the login *)

BeginVerify(c) ==
    \E guess \in Codes : Receive(c, [at |-> "attempts", guess |-> guess])

\* A guess that is refused does not lengthen the lock.
ReadAttempts(c) ==
    /\ Calling(c, "attempts")
    /\ Then(c, IF attempts >= MaxAttempts THEN NoCall
                 ELSE [at |-> "code", guess |-> call[c].guess, attempts |-> attempts])
    /\ UNCHANGED << cache, otpHistory >>

ReadCode(c) ==
    /\ Calling(c, "code")
    /\ Then(c, CASE code = NoCode -> NoCall
                 [] code = call[c].guess -> [at |-> "purge", guess |-> call[c].guess]
                 [] OTHER -> [at |-> "count", attempts |-> call[c].attempts])
    /\ UNCHANGED << cache, otpHistory >>

CountWrong(c) ==
    /\ Calling(c, "count")
    /\ attempts' = call[c].attempts + 1
    /\ lockTtl' = LockTicks
    /\ guessed' = Once(guessed)
    /\ Then(c, NoCall)
    /\ UNCHANGED << code, codeTtl, requests, requestTtl, issued, accepted, disturbed >>

\* Not the code: only the counter is cleared.
PurgeNothing(c) ==
    /\ Calling(c, "purge")
    /\ Then(c, [call[c] EXCEPT !.at = "clear"])
    /\ UNCHANGED << cache, otpHistory >>

PurgeCode(c) ==
    /\ Calling(c, "purge")
    /\ code' = NoCode
    /\ codeTtl' = 0
    /\ Then(c, [call[c] EXCEPT !.at = "clear"])
    /\ UNCHANGED << attempts, lockTtl, requests, requestTtl, otpHistory >>

ClearAttempts(c) ==
    /\ Calling(c, "clear")
    /\ attempts' = 0
    /\ lockTtl' = 0
    /\ guessed' = {}
    /\ Then(c, [call[c] EXCEPT !.at = "login"])
    /\ UNCHANGED << code, codeTtl, requests, requestTtl, issued, accepted, disturbed >>

\* get_or_create of the user and the tokens; an inactive user is refused, but
\* the code is spent.
Login(c) ==
    /\ Calling(c, "login")
    /\ accepted' = IF disturbed THEN accepted ELSE accepted \cup {call[c].guess}
    /\ Then(c, NoCall)
    /\ UNCHANGED << cache, issued, guessed, disturbed >>

\* The call ends between two statements.  A request may end with its code
\* stored and not counted.
CallCrash(c) ==
    /\ ~ Calling(c, "idle")
    /\ Then(c, NoCall)
    /\ disturbed' = (disturbed \/ Calling(c, "bump"))
    /\ UNCHANGED << cache, issued, guessed, accepted >>

-----------------------------------------------------------------------------
(* Time *)

Older(events, span) ==
    {[age |-> e.age + 1, nth |-> e.nth] : e \in {d \in events : d.age + 1 < span}}

\* A key whose time is over is gone.
Left(ttl) == IF ttl = 0 THEN 0 ELSE ttl - 1

Tick ==
    /\ codeTtl' = Left(codeTtl)
    /\ code' = IF codeTtl' = 0 THEN NoCode ELSE code
    /\ lockTtl' = Left(lockTtl)
    /\ attempts' = IF lockTtl' = 0 THEN 0 ELSE attempts
    /\ requestTtl' = Left(requestTtl)
    /\ requests' = IF requestTtl' = 0 THEN 0 ELSE requests
    /\ issued' = Older(issued, RequestTicks)
    /\ guessed' = Older(guessed, LockTicks)
    /\ UNCHANGED << call, accepted, disturbed >>

CallerStep(c) ==
    \/ BeginRequest(c) \/ ReadRequests(c) \/ StoreCode(c) \/ BumpRequests(c)
    \/ BeginVerify(c) \/ ReadAttempts(c) \/ ReadCode(c) \/ CountWrong(c)
    \/ PurgeCode(c) \/ ClearAttempts(c) \/ Login(c) \/ CallCrash(c)

OtpNext == Tick \/ \E c \in Callers : CallerStep(c)

OtpSpec == OtpInit /\ [][OtpNext]_otp

-----------------------------------------------------------------------------
(* Properties *)

(* As long as no two calls for a phone overlap and no request ends between *)
(* storing and counting its code, any fifteen minutes see at most three    *)
(* codes and, since the last login, three wrong guesses (otp.py:7-8),      *)
(* although the code counts them with keys that expire.                    *)
LimitsHold ==
    ~ disturbed =>
        Cardinality(issued) <= MaxRequests /\ Cardinality(guessed) <= MaxAttempts

(* As long as no two calls for a phone overlap, a code is good for one     *)
(* login, also if the calls between were cut short anywhere (otp.py:6).    *)
CodeUsedOnce ==
    [][\A c \in Callers : Login(c) /\ ~ disturbed => call[c].guess \notin accepted]_otp
-----------------------------------------------------------------------------
(* The inductive invariant behind them *)

CallState ==
    {NoCall} \cup [at : {"requests"}]
        \cup [at : {"store", "bump"}, requests : Nat]
        \cup [at : {"attempts", "purge", "clear", "login"}, guess : Codes]
        \cup [at : {"code"}, guess : Codes, attempts : Nat]
        \cup [at : {"count"}, attempts : Nat]

OtpTypeOK ==
    /\ code \in Codes \cup {NoCode}
    /\ {codeTtl, attempts, lockTtl, requests, requestTtl} \subseteq Nat
    /\ call \in [Callers -> CallState]
    /\ issued \subseteq Event(RequestTicks) /\ IsFiniteSet(issued)
    /\ guessed \subseteq Event(LockTicks) /\ IsFiniteSet(guessed)
    /\ accepted \subseteq Codes
    /\ disturbed \in BOOLEAN

\* A counter covers its history: it is as high, and the key lives at least as
\* long as the youngest event counts.
Covers(counter, ttl, events, span) ==
    /\ Cardinality(events) <= counter
    /\ \A e \in events : span <= e.age + ttl

\* The next event has a number of its own.
Numbered(events) == \A e \in ThisTick(events) : e.nth <= Cardinality(ThisTick(events))

\* What the only call under way has read is still good enough: the history
\* has not grown since, but the counter may have expired.
RequestsCounted ==
    /\ requests <= MaxRequests /\ Numbered(issued)
    /\ (\A c \in Callers : ~ Calling(c, "bump"))
          => Covers(requests, requestTtl, issued, RequestTicks)
    /\ \A c \in Callers :
          /\ call[c].at \in {"store", "bump"} => call[c].requests < MaxRequests
          /\ Calling(c, "store") => Cardinality(issued) <= call[c].requests
          /\ Calling(c, "bump") => Cardinality(issued) <= call[c].requests + 1

GuessesCounted ==
    /\ attempts <= MaxAttempts /\ Numbered(guessed)
    /\ Covers(attempts, lockTtl, guessed, LockTicks)
    /\ \A c \in Callers : call[c].at \in {"code", "count"} =>
          call[c].attempts < MaxAttempts /\ Cardinality(guessed) <= call[c].attempts

CodesFresh ==
    /\ code \notin accepted
    /\ \A c \in Callers :
          /\ call[c].at \in {"purge", "clear", "login"} => call[c].guess \notin accepted
          /\ Calling(c, "purge") => code \in {call[c].guess, NoCode}
          /\ call[c].at \in {"clear", "login"} => code = NoCode

OtpInv ==
    /\ OtpTypeOK
    /\ ~ disturbed =>
          /\ \A c, d \in Callers : c # d => Calling(c, "idle") \/ Calling(d, "idle")
          /\ RequestsCounted /\ GuessesCounted /\ CodesFresh
===============================================================================
