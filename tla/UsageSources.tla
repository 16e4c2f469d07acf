---------------------------- MODULE UsageSources ----------------------------
(***************************************************************************)
(* What the two usage sources make of the answers they get                 *)
(* (claudial-host/src/usage): a snapshot, or none when a poll fails.  An   *)
(* optional value is a set of at most one element.  A percentage is a      *)
(* number of steps, of which Full are the limit and more than Full may be  *)
(* reported; a reset is the number of units until it, counted from the     *)
(* poll, and a snapshot's Never is the stamp 0.                            *)
(***************************************************************************)
EXTENDS Integers

CONSTANTS Full,      \* 100 %
          Reported,  \* what an answer may report
          Resets     \* when a window may end

ASSUME UsageSourcesAssumption == /\ Full \in Nat \ {0}
                                 /\ Reported \subseteq Nat
                                 /\ Resets \subseteq Nat \ {0}

Never == 0
Maybe(S) == {{}} \cup {{x} : x \in S}

(* UsageSnapshot, without what is only displayed of the weekly window.      *)
Statuses == {"Allowed", "Limited", "Unknown"}
Reading == [session : 0..Full, reset : Resets \cup {Never}, status : Statuses]
Unknown == [session |-> 0, reset |-> Never, status |-> "Unknown"]

Unclamped(percent) == percent
Clamp(percent) == IF percent > Full THEN Full ELSE percent
OrZero(option) == IF option = {} THEN 0 ELSE CHOOSE x \in option : TRUE
Percent(option) == Clamp(OrZero(option))

-----------------------------------------------------------------------------
(* claude_code.rs: headers of a response.  A header may be there and not    *)
(* parse; the status header is absent, one of the allowed ones or another.  *)
(* A request over the limit is answered with an error, which is no reading. *)
CodeAnswer == [success : BOOLEAN, header : BOOLEAN, session : Maybe(Reported),
               reset : Maybe(Resets), status : Maybe({"allowed", "rejected"})]

CodeStatus(option) ==
  CASE option = {}          -> "Unknown"
    [] option = {"allowed"} -> "Allowed"
    [] OTHER                -> "Limited"

ClaudeCode(answer) ==
  CASE ~answer.success -> {}
    [] answer.success /\ ~answer.header -> {Unknown}
    [] OTHER -> {[session |-> Percent(answer.session),
                  reset |-> OrZero(answer.reset),
                  status |-> CodeStatus(answer.status)]}

-----------------------------------------------------------------------------
(* claude_proxy.rs: what the proxy knows, which may be older.  That its last *)
(* fetch failed is only logged, and therefore left out.                     *)
Limit == [utilization : Maybe(Reported), resets : Maybe(Resets)]
ProxyAnswer == [success : BOOLEAN, five : Maybe(Limit), seven : Maybe(Reported)]

ProxyStatus(five, seven) ==
  IF Percent(five.utilization) >= Full \/ Percent(seven) >= Full
  THEN "Limited" ELSE "Allowed"

ClaudeProxy(answer) ==
  IF ~answer.success THEN {}
  ELSE IF answer.five = {} THEN {Unknown}
  ELSE {[session |-> Percent(five.utilization), reset |-> OrZero(five.resets),
         status |-> ProxyStatus(five, answer.seven)] : five \in answer.five}

-----------------------------------------------------------------------------
(* Every reading that a poll may have, and whether its percentage was told  *)
(* or is only a 0 for want of one.                                          *)
Told(option) == \E x \in option : x \in Reported

CodeReadings ==
  UNION {{[of |-> r, told |-> a.header /\ Told(a.session)] : r \in ClaudeCode(a)} :
         a \in CodeAnswer}
ProxyReadings ==
  UNION {{[of |-> r, told |-> \E five \in a.five : Told(five.utilization)] :
          r \in ClaudeProxy(a)} : a \in ProxyAnswer}

Polled == CodeReadings \cup ProxyReadings
=============================================================================
