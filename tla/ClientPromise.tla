---------------------------- MODULE ClientPromise ----------------------------
(***************************************************************************)
(* What StorageClient.put_json_idempotent and StorageRuntime.locate        *)
(* promise their callers: each key is a register that is written once and  *)
(* only a delete empties it.  A put installs its value or agrees with the  *)
(* value that is there, locate reports one moment of the register, and an  *)
(* answer is true of some moment between the call and the answer.          *)
(***************************************************************************)
CONSTANTS Keys,     \* storage keys
          Values,   \* JSON values
          NoValue,  \* "nothing has this key"
          Writers,  \* calls of put_json_idempotent
          Locates,  \* calls of locate
          Deletes   \* calls of delete

Calls == Writers \cup Locates \cup Deletes

VARIABLES register,  \* the value of each key, or NoValue
          answer,    \* what each call has done or answered so far
          request,   \* the value each writer wants
          key        \* the key of each call

vars == <<register, answer, request, key>>

Init ==
    /\ register = [k \in Keys |-> NoValue]
    /\ answer = [c \in Calls |-> "pending"]
    /\ request \in [Writers -> Values]
    /\ key \in [Calls -> Keys]

Value(c) == register[key[c]]

Reply(c, from, a) ==
    /\ answer[c] = from
    /\ answer' = [answer EXCEPT ![c] = a]
    /\ UNCHANGED <<request, key>>

(* The put's value becomes the value of a key that had none. *)
Install(w) ==
    /\ Reply(w, "pending", "installed")
    /\ Value(w) = NoValue
    /\ register' = [register EXCEPT ![key[w]] = request[w]]

(* The key has the very value the put wanted. *)
Agree(w) ==
    /\ Reply(w, "pending", "agreed")
    /\ Value(w) = request[w]
    /\ UNCHANGED register

(* ObjectConsistencyError: the key has another value. *)
Disagree(w) ==
    /\ Reply(w, "pending", "conflict")
    /\ Value(w) \notin {NoValue, request[w]}
    /\ UNCHANGED register

(* The value the put met is gone, and the put raises. *)
Lose(w) ==
    /\ Value(w) = NoValue
    /\ Reply(w, "pending", "gone") \/ Reply(w, "agreed", "gone")
    /\ UNCHANGED register

(* The put returns, or an error hides what it did. *)
Return(w) ==
    /\ \/ Reply(w, "installed", "created")
       \/ Reply(w, "installed", "unreported")
       \/ Reply(w, "agreed", "accepted")
    /\ UNCHANGED register

(* The put fails without having had any effect. *)
GiveUp(w) ==
    /\ Reply(w, "pending", "failed")
    /\ UNCHANGED register

Located(l) ==
    /\ Value(l) # NoValue
    /\ Reply(l, "pending", "located")
    /\ UNCHANGED register

(* Nothing is there: locate says so, or raises. *)
NotLocated(l) ==
    /\ Value(l) = NoValue
    /\ Reply(l, "pending", "absent") \/ Reply(l, "pending", "raised")
    /\ UNCHANGED register

Remove(d) ==
    /\ Reply(d, "pending", "deleted")
    /\ Value(d) # NoValue
    /\ register' = [register EXCEPT ![key[d]] = NoValue]

NotRemoved(d) ==
    /\ Value(d) = NoValue
    /\ Reply(d, "pending", "missing") \/ Reply(d, "pending", "vanished")
    /\ UNCHANGED register

Next ==
    \/ \E w \in Writers : \/ Install(w) \/ Agree(w) \/ Disagree(w) \/ Lose(w)
                          \/ Return(w) \/ GiveUp(w)
    \/ \E l \in Locates : Located(l) \/ NotLocated(l)
    \/ \E d \in Deletes : Remove(d) \/ NotRemoved(d)

Spec == Init /\ [][Next]_vars

=============================================================================
