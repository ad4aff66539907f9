------------------------------- MODULE Access -------------------------------
(***************************************************************************)
(* Logging in and the request gate (app/login/actions.ts, lib/auth/*,      *)
(* middleware.ts).  A login presents a password, always the right one here *)
(* (a wrong one only redirects), and, when a TOTP secret is set and the    *)
(* browser is not remembered, a code: the counter of the half minute it    *)
(* was shown in.  Tokens carry the fingerprint of the credentials they     *)
(* were made under.  Time counts TOTP periods, and the ages of the cookies *)
(* are compressed to a few of them.                                        *)
(***************************************************************************)
EXTENDS Integers, FiniteSets

CONSTANTS
    Browsers,
    Deployments,      \* environments the instance is deployed with, the first of them Deployed
    Deployed,
    SessionAge, DeviceAge,   \* SESSION_MAX_AGE, DEVICE_MAX_AGE
    MaxTime,          \* bound on time
    NoCookie, NoRow

ASSUME AccessAssumption ==
    /\ Deployed \in Deployments
    /\ SessionAge \in Nat /\ DeviceAge \in Nat \ {0}
    /\ MaxTime \in Nat /\ NoRow \notin Nat

VARIABLES
    env,       \* the deployment: [cloud, hash, secret, totp, demoFeed]
    time,
    floorRow,  \* Setting auth.totpLastCounter
    jar,       \* [Browsers -> [session, device: a token or NoCookie]]
    login,     \* [Browsers -> a login between its read of the floor and its claim]
    proved,    \* [Browsers -> [credentials -> when a code was last accepted, 0 never]]
    usedCodes,     \* codes that opened a session
    reused     \* codes that opened another

avars == <<env, time, floorRow, jar, login, proved, usedCodes, reused>>

\* passwordFingerprint: the password's hash and the TOTP secret.
credsOf(e) == <<e.hash, e.totp>>
AllCreds == {credsOf(e) : e \in Deployments}

\* verifySessionToken and verifyDeviceToken.
verified(token) ==
    /\ env.secret /\ token # NoCookie
    /\ time < token.until /\ token.creds = credsOf(env)

isTotpConfigured(e) == e.totp # 0
isAuthConfigured(e) == e.hash # 0 /\ e.secret
isAuthEnabled(e) == e.cloud \/ e.hash # 0 \/ e.secret \/ isTotpConfigured(e)

\* middleware: what a request is answered.
gate(b, loopback, onLogin, reads) ==
    LET valid == verified(jar[b].session) IN
    IF ~env.cloud /\ ~loopback THEN "403"
    ELSE IF env.demoFeed THEN "503"
    ELSE IF ~isAuthEnabled(env) THEN "served"
    ELSE IF ~isAuthConfigured(env) THEN "503"
    ELSE IF ~valid /\ ~onLogin THEN IF reads THEN "to login" ELSE "401"
    ELSE IF valid /\ onLogin THEN "to overview"
    ELSE "served"

NoLogin == [asked |-> 0]

AccessInit ==
    /\ env = Deployed
    /\ time = 1
    /\ floorRow = NoRow
    /\ jar = [b \in Browsers |-> [session |-> NoCookie, device |-> NoCookie]]
    /\ login = [b \in Browsers |-> NoLogin]
    /\ proved = [b \in Browsers |-> [c \in AllCreds |-> 0]]
    /\ usedCodes = {} /\ reused = {}

floorOf(row) == IF row = NoRow THEN 0 ELSE row

\* verifyTotp: one period either way, above the replay floor.
verifyTotp(counter) == counter \in time - 1 .. time + 1 /\ counter > floorOf(floorRow)

token(e, age, asked) == [creds |-> credsOf(e), until |-> time + age, asked |-> asked]

\* Remembering is earned by a code in this very request.
enrols_AnyLogin(passedTotpNow, remember) == remember
enrols(passedTotpNow, remember) == passedTotpNow /\ remember

withCookies(b, e, asked, passed, remember) ==
    [jar EXCEPT ![b] =
        [session |-> token(e, SessionAge, asked),
         device |-> IF enrols(passed, remember) THEN token(e, DeviceAge, asked) ELSE @.device]]

reachesLogin(b) == login[b] = NoLogin /\ gate(b, TRUE, TRUE, FALSE) = "served" /\ env.hash # 0

\* The password alone: no second factor, or a remembered device.
LoginByPassword(b, remember) ==
    /\ reachesLogin(b)
    /\ ~isTotpConfigured(env) \/ verified(jar[b].device)
    /\ jar' = withCookies(b, env, time, FALSE, remember)
    /\ UNCHANGED <<env, time, floorRow, login, proved, usedCodes, reused>>

\* The floor is read and the code checked against it ...
PresentCode(b, counter, remember) ==
    /\ reachesLogin(b)
    /\ isTotpConfigured(env) /\ ~verified(jar[b].device)
    /\ verifyTotp(counter)
    /\ login' = [login EXCEPT ![b] = [asked |-> time, row |-> floorRow, accepted |-> counter,
                                      of |-> env, remember |-> remember]]
    /\ UNCHANGED <<env, time, floorRow, jar, proved, usedCodes, reused>>

\* ... and the counter claimed only from the very row that was read.
claimed_Upsert(row) == TRUE
claimed(row) == floorRow = row

Claim(b) ==
    LET l == login[b]
        code == <<l.of.totp, l.accepted>>
    IN
    /\ l # NoLogin
    /\ login' = [login EXCEPT ![b] = NoLogin]
    /\ IF claimed(l.row)
       THEN /\ floorRow' = l.accepted
            /\ jar' = withCookies(b, l.of, l.asked, TRUE, l.remember)
            /\ proved' = [proved EXCEPT ![b][credsOf(l.of)] = time]
            /\ usedCodes' = usedCodes \union {code}
            /\ reused' = reused \union (usedCodes \cap {code})
       ELSE UNCHANGED <<floorRow, jar, proved, usedCodes, reused>>
    /\ UNCHANGED <<env, time>>

logout(b) ==
    /\ gate(b, TRUE, FALSE, FALSE) = "served"
    /\ jar' = [jar EXCEPT ![b].session = NoCookie]
    /\ UNCHANGED <<env, time, floorRow, login, proved, usedCodes, reused>>

Redeploy(e) ==
    /\ e # env
    /\ env' = e
    /\ UNCHANGED <<time, floorRow, jar, login, proved, usedCodes, reused>>

TimePasses ==
    /\ time < MaxTime
    /\ time' = time + 1
    /\ UNCHANGED <<env, floorRow, jar, login, proved, usedCodes, reused>>

AccessNext ==
    \/ \E b \in Browsers :
        \/ \E remember \in BOOLEAN :
            \/ LoginByPassword(b, remember)
            \/ \E counter \in 1 .. MaxTime : PresentCode(b, counter, remember)
        \/ Claim(b)
        \/ logout(b)
    \/ \E e \in Deployments : Redeploy(e)
    \/ TimePasses

AccessSpec == AccessInit /\ [][AccessNext]_avars

\* A code opens one session, however many logins present it at once
\* (the compare-and-set of app/login/actions.ts).
OneUseCodes == reused = {}

\* What a page needs to have been shown: an instance with any secret set, or a
\* cloud database, serves none without a session of the credentials now in
\* force, and where these have a second factor, one that this browser proved
\* within the time a device is remembered.  A remembered login never renews
\* what it was remembered by.
SecondFactorRecent ==
    \A b \in Browsers :
        gate(b, TRUE, FALSE, TRUE) = "served" =>
            \/ ~env.cloud /\ ~env.secret /\ env.hash = 0 /\ env.totp = 0
            \/ LET s == jar[b].session
                   when == proved[b][credsOf(env)]
               IN /\ s # NoCookie /\ s.creds = credsOf(env)
                  /\ env.totp # 0 => when # 0 /\ s.asked - when < DeviceAge

\* No page is served but to a session a login earned, each code spent once.
SessionsAreEarned == OneUseCodes /\ SecondFactorRecent
=============================================================================
