----------------------------- MODULE AuthToken ------------------------------
(***************************************************************************)
(* The authentication tokens of src/distributed/distributed.c: a token is  *)
(* created for a user, written as "user:created_at:ttl", read back, and    *)
(* checked against the clock.                                              *)
(*                                                                         *)
(* A text is what sscanf's "%127[^:]:%lu:%lu" tells apart: the part before *)
(* the first colon, and the fields behind it, each a number or not.  A     *)
(* user id may hold colons itself.  Times are uint64_t and wrap; the clock *)
(* is CLOCK_REALTIME and may be set back.                                  *)
(***************************************************************************)
EXTENDS Integers, Sequences

CONSTANTS
    UserIds,        \* [first : before the first colon, rest : sequence of fields behind]
    EmptyNames,     \* values of first that are the empty string
    LongNames,      \* values of first of more than 127 bytes
    NotANumber,     \* a field %lu does not match
    Ttls,           \* ttl_seconds
    SecondMs,       \* milliseconds of a second
    WordRange,      \* times are kept modulo this (2^64 in the code)
    MaxTime,        \* bound: the clock
    None            \* NULL

VARIABLES
    now,
    token,          \* [user_id, created_at, ttl_seconds]
    text,           \* the token as written by auth_token_serialize
    restored        \* what auth_token_deserialize made of the text

vars == <<now, token, text, restored>>

Token == [user_id : UserIds \cup {[first |-> u.first, rest |-> <<>>] : u \in UserIds},
          created_at : 0 .. WordRange - 1, ttl_seconds : 0 .. WordRange - 1]

TypeOK ==
    /\ now \in 0 .. MaxTime
    /\ token \in Token \cup {None}
    /\ text = None \/ text.first \in {u.first : u \in UserIds}
    /\ restored \in Token \cup {None}

Init == now = 0 /\ token = None /\ text = None /\ restored = None

Tick ==
    /\ now < MaxTime
    /\ now' = now + 1
    /\ UNCHANGED <<token, text, restored>>

(* The wall clock is set back to t. *)
StepBack(t) ==
    /\ t < now
    /\ now' = t
    /\ UNCHANGED <<token, text, restored>>

(* auth_token_create *)
Create(u, ttl) ==
    /\ token = None
    /\ token' = [user_id |-> u, created_at |-> now, ttl_seconds |-> ttl]
    /\ UNCHANGED <<now, text, restored>>

(* auth_token_serialize; the text of such a token fits into 256 bytes unless *)
(* the user id alone is too long to be read back.                           *)
Serialize ==
    /\ token # None
    /\ text' = [first |-> token.user_id.first,
                fields |-> token.user_id.rest \o <<token.created_at, token.ttl_seconds>>]
    /\ UNCHANGED <<now, token, restored>>

(* auth_token_deserialize: sscanf has to match all three parts, and does    *)
(* not look at what comes behind them.                                      *)
ReadFields(t) ==
    IF t.first \in EmptyNames \cup LongNames \/ NotANumber \in {t.fields[1], t.fields[2]}
    THEN None
    ELSE [user_id |-> [first |-> t.first, rest |-> <<>>],
          created_at |-> t.fields[1], ttl_seconds |-> t.fields[2]]

Deserialize ==
    /\ text # None
    /\ restored' = ReadFields(text)
    /\ UNCHANGED <<now, token, text>>

(* auth_token_destroy of both tokens; the text goes with them. *)
Destroy ==
    /\ token # None
    /\ token' = None /\ text' = None /\ restored' = None
    /\ UNCHANGED now

ValidInSeconds(t) == (now - t.created_at) % WordRange < t.ttl_seconds

(* auth_token_validate *)
Valid(t) == (now - t.created_at) % WordRange < (t.ttl_seconds * SecondMs) % WordRange

Next ==
    \/ Tick
    \/ \E t \in 0 .. MaxTime : StepBack(t)
    \/ \E u \in UserIds, ttl \in Ttls : Create(u, ttl)
    \/ Serialize
    \/ Deserialize
    \/ Destroy

Spec == Init /\ [][Next]_vars

-----------------------------------------------------------------------------
(* Properties. *)

Plain(u) == u.rest = <<>> /\ u.first \notin EmptyNames \cup LongNames

(* A token, read back or not, is valid for exactly its time to live, except *)
(* that a product of ttl_seconds and 1000 beyond 64 bits only shortens it.  *)
(* One from the future, of a clock that was set back, is not valid, unless  *)
(* its time to live is so long that it reaches around the range of times.   *)
(* What auth_token_deserialize reads back is the token, for a user id       *)
(* without a colon, of 1 to 127 bytes.                                      *)
ValidForTtl ==
    token # None =>
        LET age == now - token.created_at
            life == token.ttl_seconds * SecondMs
        IN  /\ text # None /\ Plain(token.user_id) => ReadFields(text) = token
            /\ age >= 0 /\ Valid(token) => age < life
            /\ age >= 0 /\ age < life /\ life < WordRange => Valid(token)
            /\ age < 0 /\ Valid(token) => life > WordRange + age
=============================================================================
