------------------------------- MODULE SignIn -------------------------------
(***************************************************************************)
(* Signing in with OpenRouter: the code verifier in the session storage of *)
(* a tab, the redirect away and back, and the exchange of the code for a   *)
(* key, started by an effect of the application's root.                    *)
(***************************************************************************)
EXTENDS BrowserStorage, Naturals, Sequences

CONSTANTS MaxSignIns, \* bound: sign-ins begun
          Mishaps     \* what may go wrong

ASSUME SignInShape ==
    MaxSignIns \in Nat /\ Mishaps \subseteq {"storage", "exchange", "stale"}

VARIABLES
    verifier, \* sessionStorage of a tab: the number of its sign-in, 0: none
    url,      \* the code in a tab's address: the sign-in it answers, 0: none
    leaving,  \* tabs between the stored verifier and the redirect
    attempts, \* sign-ins begun
    exchange, \* exchanges in flight: the verifier and the code they carry, and
              \* whether the effect that began them still waits for the answer
    errors    \* instances of the sign-in hook that hold an error

signInVars == <<verifier, url, leaving, attempts, exchange, errors>>

Rounds == 0..MaxSignIns

SignInTypeOK ==
    /\ verifier \in [Tabs -> Rounds] /\ url \in [Tabs -> Rounds]
    /\ attempts \in Rounds /\ leaving \subseteq Tabs
    /\ exchange \in [Tabs -> Seq([verifier : Rounds \ {0}, code : Rounds \ {0},
                                 effect : {"live", "cancelled"}])]
    /\ errors \in [Tabs -> SUBSET {"root", "button", "dialog"}]

SignInInit ==
    /\ verifier = [t \in Tabs |-> 0] /\ url = [t \in Tabs |-> 0]
    /\ attempts = 0 /\ exchange = [t \in Tabs |-> <<>>]
    /\ leaving = {} /\ errors = [t \in Tabs |-> {}]

\* The button offers to sign in while its hook holds no key.
MaySignIn(t) == view[t].openrouter.key = None

\* signIn and initiateOAuth: the verifier is stored before the challenge is
\* computed; an error stays with the button's own instance of the hook.
StartSignIn(t) ==
    /\ t \in open \ leaving /\ attempts < MaxSignIns
    /\ MaySignIn(t)
    /\ attempts' = attempts + 1
    /\ \/ /\ verifier' = [verifier EXCEPT ![t] = attempts']
          /\ leaving' = leaving \cup {t}
          /\ errors' = [errors EXCEPT ![t] = @ \ {"button"}]
       \/ /\ "storage" \in Mishaps /\ errors' = [errors EXCEPT ![t] = @ \cup {"button"}]
          /\ UNCHANGED <<verifier, leaving>>
    /\ UNCHANGED <<storageVars, url, exchange>>

\* The page is left; what it had in flight is lost with it.
Redirect(t) ==
    /\ t \in leaving /\ leaving' = leaving \ {t}
    /\ exchange' = [exchange EXCEPT ![t] = <<>>]
    /\ errors' = [errors EXCEPT ![t] = {}]
    /\ Unmount(t)
    /\ UNCHANGED <<verifier, url, attempts>>

\* Mutant of Exchanged: the verifier is removed when the answer is there.
ExchangedKeeping(s, code) ==
    [s EXCEPT !.exchange = Append(@, [verifier |-> s.verifier, code |-> code,
                                      effect |-> "live"])]

\* handleOAuthCallback, up to the request: the verifier is used once.
Exchanged(s, code) ==
    [verifier |-> 0,
     exchange |-> Append(s.exchange, [verifier |-> s.verifier, code |-> code,
                                      effect |-> "live"])]

\* Mutant of CallbackEffect: an abandoned flow leaves its verifier behind.
CallbackKeepsStale(s, code) ==
    IF s.verifier # 0 /\ code # 0 THEN Exchanged(s, code) ELSE s

\* The effect of the root: a code is exchanged only while a verifier is
\* pending; a pending verifier without a code is an abandoned flow.
CallbackEffect(s, code) ==
    IF s.verifier # 0 /\ code # 0 THEN Exchanged(s, code) ELSE [s EXCEPT !.verifier = 0]

\* The cleanup of the effect: its exchange goes on, and nobody hears of it.
Unheard(x)   == [x EXCEPT !.effect = "cancelled"]
Cancelled(s) ==
    [s EXCEPT !.exchange = [i \in DOMAIN @ |-> Unheard(@[i])]]

\* A page load; in StrictMode React runs the effect of the root twice, with its
\* cleanup in between.
Load(t, code) ==
    /\ Mount(t)
    /\ \E strict \in BOOLEAN :
         LET once == CallbackEffect([verifier |-> verifier[t], exchange |-> <<>>], code)
             last == IF strict THEN CallbackEffect(Cancelled(once), code) ELSE once
         IN  /\ verifier' = [verifier EXCEPT ![t] = last.verifier]
             /\ exchange' = [exchange EXCEPT ![t] = last.exchange]
    /\ url' = [url EXCEPT ![t] = code]
    /\ errors' = [errors EXCEPT ![t] = {}]
    /\ UNCHANGED <<leaving, attempts>>

\* A first visit or a reload; OpenRouter sending the browser back with a code;
\* a declined sign-in, where the address may still hold an older code.
Visit(t)    == t \notin leaving /\ (t \in open \/ verifier[t] = 0) /\ Load(t, url[t])
Approved(t) == t \notin open /\ verifier[t] # 0 /\ Load(t, verifier[t])
Declined(t) == /\ t \notin open /\ verifier[t] # 0
               /\ Load(t, IF "stale" \in Mishaps THEN url[t] ELSE 0)

\* The code answers its own verifier's challenge: the key is stored.  An effect
\* that still listens takes the code out of the address, or keeps the error;
\* after its cleanup it does neither.
Answered(t) ==
    LET x == Head(exchange[t])
        heard == x.effect = "live"
    IN
    /\ exchange[t] # <<>> /\ exchange' = [exchange EXCEPT ![t] = Tail(@)]
    /\ \/ /\ x.code = x.verifier
          /\ \E k \in Keys :
               Written([storage EXCEPT !.openrouter.key = k], t, "openrouter")
          /\ url' = [url EXCEPT ![t] = IF heard THEN 0 ELSE @] /\ UNCHANGED errors
       \/ /\ x.code # x.verifier \/ "exchange" \in Mishaps
          /\ errors' = [errors EXCEPT ![t] = @ \cup IF heard THEN {"root"} ELSE {}]
          /\ UNCHANGED <<storageVars, url>>
    /\ UNCHANGED <<verifier, leaving, attempts>>

-----------------------------------------------------------------------------
(* Properties                                                              *)

\* A sign-in is exchanged at most once, also when the effect of the root runs
\* twice, and with the code that answers it.
OneExchangePerSignIn ==
    \A t \in Tabs :
      /\ Len(exchange[t]) <= 1
      /\ \A i \in 1..Len(exchange[t]) : exchange[t][i].code = exchange[t][i].verifier

\* No tab is left mid-flow: a page that neither leaves nor exchanges a code
\* has no verifier that a later code in its address could meet.
NotLeftMidFlow == \A t \in open \ leaving : verifier[t] = 0
=============================================================================
