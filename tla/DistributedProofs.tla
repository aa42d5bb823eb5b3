------------------------- MODULE DistributedProofs --------------------------
(***************************************************************************)
(* Proofs about the objects of distributed.c that MCLibraries composes: a  *)
(* retried call, a token, the rate limiter, the service registry and the   *)
(* metrics collector, for any limits, times, clients and services.         *)
(***************************************************************************)
EXTENDS MCLibraries, ListLemmas

-----------------------------------------------------------------------------
(* A retried call.  As long as it runs, every call so far has failed, and   *)
(* each was followed by one sleep unless it was the last that is allowed.   *)
Attempts ==
    /\ at \in {"test", "call"} => /\ Len(outcomes) = attempt /\ attempt <= max_retries + 1
                                  /\ attempt > 0 => result = "ERROR"
                                  /\ Len(sleeps) = IF attempt <= max_retries THEN attempt ELSE max_retries
    /\ at = "call" => attempt <= max_retries
    /\ at = "failed" => /\ Len(outcomes) = attempt + 1 /\ attempt <= max_retries
                        /\ Len(sleeps) = attempt /\ result = "ERROR"
    /\ at # "returned" => \A i \in 1 .. Len(outcomes) : outcomes[i] = "ERROR"
    /\ \A i \in 1 .. Len(sleeps) : sleeps[i].after = i

RetryInv == Retried!TypeOK /\ (max_retries >= 0 => Attempts) /\ RetryContract

LEMMA LimitsAreNumbers == RetryLimits \subseteq Int
BY RetryAssumption DEF RetryLimits

LEMMA RetryInit == Retried!Init => RetryInv
BY RetryAssumption, LimitsAreNumbers
   DEF Retried!Init, RetryInv, Retried!TypeOK, Retried!Outcome, Attempts, RetryContract,
       Retried!RetryContract

LEMMA RetryStep == RetryInv /\ [Retried!Next]_retry_vars => RetryInv'
<1> SUFFICES ASSUME RetryInv, [Retried!Next]_retry_vars PROVE RetryInv'
    OBVIOUS
<1> USE DEF Retried!Outcome
<1>0. /\ max_retries \in RetryLimits /\ max_retries \in Int /\ attempt \in Nat
      /\ at \in {"test", "call", "failed", "returned"} /\ result \in Retried!Outcome \cup {"unset"}
      /\ delay_ms \in 0 .. DelayRange - 1 /\ outcomes \in Seq(Retried!Outcome)
      /\ sleeps \in Seq([delay : 0 .. DelayRange - 1, after : Nat])
      /\ Len(outcomes) \in Nat /\ Len(sleeps) \in Nat
    BY LimitsAreNumbers, LenProperties DEF RetryInv, Retried!TypeOK
<1>1. CASE Retried!LoopTest
  <2>1. /\ at = "test" /\ at' \in {"call", "returned"}
        /\ UNCHANGED <<max_retries, attempt, delay_ms, outcomes, sleeps>>
        /\ result' \in Retried!Outcome \cup {"unset"}
        /\ result' = result \/ result = "unset"
        /\ at' = "call" => attempt <= max_retries
        /\ at' = "returned" => attempt > max_retries
      BY <1>0, <1>1 DEF Retried!LoopTest
  <2>2. Retried!TypeOK'
      BY <1>0, <2>1 DEF Retried!TypeOK
  <2>3. ASSUME max_retries >= 0 PROVE Attempts' /\ RetryContract'
    <3>1. Attempts
        BY <2>3 DEF RetryInv
    <3>2. Attempts'
        BY <1>0, <2>1, <2>3, <3>1 DEF Attempts
    <3>3. RetryContract'
      <4> SUFFICES ASSUME at' = "returned"
                   PROVE  /\ outcomes # <<>> /\ result' = outcomes[Len(outcomes)]
                          /\ \A i \in 1 .. Len(outcomes) - 1 : outcomes[i] = "ERROR"
                          /\ Len(outcomes) = max_retries + 1
                          /\ Len(sleeps) = Len(outcomes) - 1
                          /\ \A i \in 1 .. Len(sleeps) : sleeps[i].after = i
          BY <2>1 DEF RetryContract, Retried!RetryContract
      <4>1. attempt = max_retries + 1 /\ Len(outcomes) = attempt /\ result = "ERROR"
            /\ Len(sleeps) = max_retries
          BY <1>0, <2>1, <2>3, <3>1 DEF Attempts
      <4>2. /\ \A i \in 1 .. Len(outcomes) : outcomes[i] = "ERROR"
            /\ \A i \in 1 .. Len(sleeps) : sleeps[i].after = i
          BY <2>1, <3>1 DEF Attempts
      <4>3. outcomes # <<>> /\ Len(outcomes) \in 1 .. Len(outcomes)
          BY <1>0, <2>3, <4>1, EmptySeq
      <4> QED
          BY <1>0, <2>1, <2>3, <4>1, <4>2, <4>3
    <3> QED
        BY <3>2, <3>3
  <2>4. max_retries' = max_retries /\ (~ (max_retries >= 0) => RetryContract')
      BY <2>1 DEF RetryContract, Retried!RetryContract
  <2> QED
      BY <2>2, <2>3, <2>4 DEF RetryInv
<1>2. ASSUME NEW outcome \in Retried!Outcome, Retried!Call(outcome) PROVE RetryInv'
  <2>1. /\ at = "call" /\ result' = outcome /\ outcomes' = Append(outcomes, outcome)
        /\ at' = IF outcome = "SUCCESS" THEN "returned" ELSE "failed"
        /\ UNCHANGED <<max_retries, attempt, delay_ms, sleeps>>
      BY <1>2 DEF Retried!Call
  <2>2. /\ outcomes' \in Seq(Retried!Outcome) /\ outcomes' # <<>> /\ Len(outcomes') = Len(outcomes) + 1
        /\ \A i \in 1 .. Len(outcomes) : outcomes'[i] = outcomes[i]
        /\ outcomes'[Len(outcomes) + 1] = outcome
      BY <1>0, <2>1, AppendProperties
  <2>3. Retried!TypeOK'
      BY <1>0, <2>1, <2>2 DEF Retried!TypeOK
  <2>4. ASSUME max_retries >= 0 PROVE Attempts' /\ RetryContract'
    <3>1. Attempts
        BY <2>4 DEF RetryInv
    <3>2. /\ Len(outcomes) = attempt /\ attempt <= max_retries /\ Len(sleeps) = attempt
          /\ \A i \in 1 .. Len(outcomes) : outcomes[i] = "ERROR"
          /\ \A i \in 1 .. Len(sleeps) : sleeps[i].after = i
        BY <2>1, <3>1 DEF Attempts
    <3>3. \A i \in 1 .. Len(outcomes') - 1 : outcomes'[i] = "ERROR"
      <4>1. Len(outcomes') - 1 = Len(outcomes)
          BY <1>0, <2>2
      <4> QED
          BY <2>2, <3>2, <4>1
    <3>4. CASE outcome = "SUCCESS"
      <4>1. at' = "returned"
          BY <2>1, <3>4
      <4>2. Attempts'
          BY <2>1, <3>2, <4>1 DEF Attempts
      <4>3. RetryContract'
          BY <1>0, <2>1, <2>2, <3>2, <3>3, <3>4, <4>1 DEF RetryContract, Retried!RetryContract
      <4> QED
          BY <4>2, <4>3
    <3>5. CASE outcome # "SUCCESS"
      <4>1. at' = "failed" /\ outcome = "ERROR"
          BY <2>1, <3>5
      <4>2. \A i \in 1 .. Len(outcomes') : outcomes'[i] = "ERROR"
          BY <1>0, <2>2, <3>2, <4>1
      <4>3. Attempts'
          BY <1>0, <2>1, <2>2, <3>2, <4>1, <4>2 DEF Attempts
      <4> QED
          BY <4>1, <4>3 DEF RetryContract, Retried!RetryContract
    <3> QED
        BY <3>4, <3>5
  <2>5. max_retries' = max_retries /\ (~ (max_retries >= 0) => RetryContract')
      BY <2>1 DEF RetryContract, Retried!RetryContract
  <2> QED
      BY <2>3, <2>4, <2>5 DEF RetryInv
<1>3. CASE Retried!BackOff
  <2>1. /\ at = "failed" /\ at' = "test" /\ attempt' = attempt + 1
        /\ UNCHANGED <<max_retries, result, outcomes>>
      BY <1>3 DEF Retried!BackOff
  <2>2. /\ attempt < max_retries => /\ sleeps' = Append(sleeps, [delay |-> delay_ms, after |-> Len(outcomes)])
                                    /\ delay_ms' \in Retried!Delays(delay_ms * Backoff)
        /\ attempt >= max_retries => UNCHANGED <<sleeps, delay_ms>>
      BY <1>0, <1>3 DEF Retried!BackOff
  <2>3. delay_ms' \in 0 .. DelayRange - 1
    <3>1. delay_ms * Backoff \in Nat
        BY <1>0, RetryAssumption
    <3>2. Retried!Delays(delay_ms * Backoff) \subseteq 0 .. DelayRange - 1
        BY <3>1, RetryAssumption DEF Retried!Delays
    <3>4. CASE attempt < max_retries
        BY <2>2, <3>2, <3>4, Zenon
    <3>5. CASE attempt >= max_retries
        BY <1>0, <2>2, <3>5
    <3> QED
        BY <1>0, <3>4, <3>5
  <2> DEFINE s == [delay |-> delay_ms, after |-> Len(outcomes)]
  <2>4. attempt < max_retries =>
            /\ sleeps' \in Seq([delay : 0 .. DelayRange - 1, after : Nat])
            /\ Len(sleeps') = Len(sleeps) + 1
            /\ \A i \in 1 .. Len(sleeps) : sleeps'[i] = sleeps[i]
            /\ sleeps'[Len(sleeps) + 1].after = Len(outcomes)
    <3>1. s \in [delay : 0 .. DelayRange - 1, after : Nat] /\ s.after = Len(outcomes)
        BY <1>0
    <3>2. attempt < max_retries => sleeps' = Append(sleeps, s)
        BY <2>2
    <3> HIDE DEF s
    <3>3. /\ Append(sleeps, s) \in Seq([delay : 0 .. DelayRange - 1, after : Nat])
          /\ Len(Append(sleeps, s)) = Len(sleeps) + 1
          /\ \A i \in 1 .. Len(sleeps) : Append(sleeps, s)[i] = sleeps[i]
          /\ Append(sleeps, s)[Len(sleeps) + 1] = s
        BY <1>0, <3>1, AppendProperties
    <3> QED
        BY <3>1, <3>2, <3>3, Zenon
  <2>5. sleeps' \in Seq([delay : 0 .. DelayRange - 1, after : Nat])
      BY <1>0, <2>2, <2>4
  <2>6. Retried!TypeOK'
      BY <1>0, <2>1, <2>3, <2>5 DEF Retried!TypeOK
  <2>7. ASSUME max_retries >= 0 PROVE Attempts'
    <3>1. Attempts
        BY <2>7 DEF RetryInv
    <3>2. /\ Len(outcomes) = attempt + 1 /\ attempt <= max_retries /\ Len(sleeps) = attempt
          /\ result = "ERROR" /\ \A i \in 1 .. Len(outcomes) : outcomes[i] = "ERROR"
          /\ \A i \in 1 .. Len(sleeps) : sleeps[i].after = i
        BY <2>1, <3>1 DEF Attempts
    <3>3. CASE attempt < max_retries
      <4>1. \A i \in 1 .. Len(sleeps') : sleeps'[i].after = i
        <5> SUFFICES ASSUME NEW i \in 1 .. Len(sleeps') PROVE sleeps'[i].after = i
            OBVIOUS
        <5>1. i \in 1 .. Len(sleeps) \/ i = Len(sleeps) + 1
            BY <1>0, <2>4, <3>3, SMTT(30)
        <5>2. i = Len(sleeps) + 1 => i = Len(outcomes)
            BY <1>0, <3>2
        <5> QED
            BY <2>4, <3>2, <3>3, <5>1, <5>2
      <4> QED
          BY <1>0, <2>1, <2>4, <3>2, <3>3, <4>1 DEF Attempts
    <3>4. CASE attempt >= max_retries
        BY <1>0, <2>1, <2>2, <3>2, <3>4 DEF Attempts
    <3> QED
        BY <1>0, <3>3, <3>4
  <2> QED
      BY <2>1, <2>6, <2>7 DEF RetryInv, RetryContract, Retried!RetryContract
<1>4. CASE UNCHANGED retry_vars
    BY <1>4 DEF retry_vars, RetryInv, Retried!TypeOK, Attempts, RetryContract, Retried!RetryContract
<1> QED
    BY <1>1, <1>2, <1>3, <1>4 DEF Retried!Next

-----------------------------------------------------------------------------
(* A token.  The text is always that of the token: neither is changed while *)
(* the other lives.                                                         *)
Written(t) == [first |-> t.user_id.first, fields |-> t.user_id.rest \o <<t.created_at, t.ttl_seconds>>]

TokenInv ==
    /\ Tokens!TypeOK
    /\ token # None => token.user_id \in UserIds
    /\ text # None => token # None /\ text = Written(token)

LEMMA TokenInit == Tokens!Init => TokenInv
BY LimiterAssumption DEF Tokens!Init, TokenInv, Tokens!TypeOK

(* The fields of a text, of which auth_token_deserialize reads two. *)
LEMMA FieldsOf ==
    ASSUME NEW rest \in {<<>>, <<NotANumber>>, << 1 >>, <<1, 2>>},
           NEW c \in 0 .. WordRange - 1, NEW ttl \in 0 .. WordRange - 1,
           NEW f, f = rest \o <<c, ttl>>
    PROVE  /\ rest = <<>> => (f[1] = c /\ f[2] = ttl)
           /\ f[1] \in (0 .. WordRange - 1) \cup {NotANumber}
           /\ f[2] \in (0 .. WordRange - 1) \cup {NotANumber}
<1> DEFINE S == Nat \cup {NotANumber}
           e == <<c, ttl>>
<1>1. e \in Seq(S) /\ Len(e) = 2 /\ e[1] = c /\ e[2] = ttl
    BY TokenAssumption
<1>2. rest \in Seq(S)
  <2>1. <<>> \in Seq(S) /\ <<NotANumber>> \in Seq(S)
      OBVIOUS
  <2>2. <<1>> \in Seq(S) /\ <<1, 2>> \in Seq(S)
      OBVIOUS
  <2> QED
      BY <2>1, <2>2
<1>3. f = rest \o e
    OBVIOUS
<1> HIDE DEF S, e
<1>4. \A i \in 1 .. Len(rest) + Len(e) : f[i] = IF i <= Len(rest) THEN rest[i] ELSE e[i - Len(rest)]
    BY <1>1, <1>2, <1>3, ConcatProperties
<1>5. CASE rest = <<>>
  <2>1. Len(rest) = 0
      BY <1>5
  <2>2. f[1] = e[1] /\ f[2] = e[2]
      BY <1>1, <1>4, <2>1
  <2> QED
      BY <1>1, <2>2
<1>6. CASE rest = <<NotANumber>>
  <2>1. Len(rest) = 1 /\ rest[1] = NotANumber /\ rest # <<>>
      BY <1>6
  <2>2. f[1] = rest[1] /\ f[2] = e[1]
      BY <1>1, <1>4, <2>1
  <2> QED
      BY <1>1, <2>1, <2>2
<1>7. CASE rest = <<1>>
  <2>1. Len(rest) = 1 /\ rest[1] = 1 /\ rest # <<>>
      BY <1>7
  <2>2. f[1] = rest[1] /\ f[2] = e[1]
      BY <1>1, <1>4, <2>1
  <2> QED
      BY <1>1, <2>1, <2>2, TokenAssumption
<1>8. CASE rest = <<1, 2>>
  <2>1. Len(rest) = 2 /\ rest[1] = 1 /\ rest[2] = 2 /\ rest # <<>>
      BY <1>8
  <2>2. f[1] = rest[1] /\ f[2] = rest[2]
      BY <1>1, <1>4, <2>1
  <2> QED
      BY <2>1, <2>2, TokenAssumption
<1> QED
    BY <1>5, <1>6, <1>7, <1>8

(* The parts of the token. *)
LEMMA PartsOfToken ==
    ASSUME TokenInv, token # None
    PROVE  /\ token \in Tokens!Token /\ token.user_id \in UserIds
           /\ token.user_id.first \in UserNames
           /\ token.user_id.rest \in {<<>>, <<NotANumber>>, <<1>>, <<1, 2>>}
           /\ token.created_at \in 0 .. WordRange - 1 /\ token.ttl_seconds \in 0 .. WordRange - 1
<1>1. token \in Tokens!Token /\ token.user_id \in UserIds
    BY DEF TokenInv, Tokens!TypeOK
<1> QED
    BY <1>1 DEF Tokens!Token, UserIds

LEMMA TokenStep == TokenInv /\ [Tokens!Next]_token_vars => TokenInv'
<1> SUFFICES ASSUME TokenInv, [Tokens!Next]_token_vars PROVE TokenInv'
    OBVIOUS
<1>1. CASE Tokens!Tick \/ \E t \in 0 .. MaxTime : Tokens!StepBack(t)
  <2>1. token_now' \in 0 .. MaxTime /\ UNCHANGED <<token, text, restored>>
      BY <1>1, LimiterAssumption DEF Tokens!Tick, Tokens!StepBack, TokenInv, Tokens!TypeOK
  <2> QED
      BY <2>1 DEF TokenInv, Tokens!TypeOK, Written
<1>2. ASSUME NEW u \in UserIds, NEW ttl \in TokenTtls, Tokens!Create(u, ttl) PROVE TokenInv'
  <2> DEFINE t == [user_id |-> u, created_at |-> token_now, ttl_seconds |-> ttl]
  <2>1. token = None /\ token' = t /\ UNCHANGED <<token_now, text, restored>>
      BY <1>2 DEF Tokens!Create
  <2>2. t \in Tokens!Token /\ t.user_id \in UserIds
      BY LimiterAssumption, TokenAssumption DEF TokenInv, Tokens!TypeOK, Tokens!Token
  <2> HIDE DEF t
  <2>3. text = None
      BY <2>1 DEF TokenInv
  <2> QED
      BY <2>1, <2>2, <2>3 DEF TokenInv, Tokens!TypeOK
<1>3. CASE Tokens!Serialize
  <2>1. token # None /\ text' = Written(token) /\ UNCHANGED <<token_now, token, restored>>
      BY <1>3 DEF Tokens!Serialize, Written
  <2>2. Written(token).first \in {u.first : u \in UserIds}
      BY <2>1, PartsOfToken DEF Written
  <2>3. Tokens!TypeOK'
      BY <2>1, <2>2 DEF TokenInv, Tokens!TypeOK
  <2>4. Written(token)' = Written(token)
      BY <2>1 DEF Written
  <2> QED
      BY <2>1, <2>3, <2>4 DEF TokenInv
<1>4. CASE Tokens!Deserialize
  <2>1. text # None /\ restored' = Tokens!ReadFields(text) /\ UNCHANGED <<token_now, token, text>>
      BY <1>4 DEF Tokens!Deserialize
  <2>2. token # None /\ text = Written(token)
      BY <2>1 DEF TokenInv
  <2>3. /\ text.first = token.user_id.first
        /\ text.fields = token.user_id.rest \o <<token.created_at, token.ttl_seconds>>
      BY <2>2 DEF Written
  <2>4. /\ text.fields[1] \in (0 .. WordRange - 1) \cup {NotANumber}
        /\ text.fields[2] \in (0 .. WordRange - 1) \cup {NotANumber}
    <3> DEFINE f == text.fields
               rest == token.user_id.rest
               c == token.created_at
               ttl == token.ttl_seconds
    <3>1. f = rest \o <<c, ttl>>
        BY <2>3
    <3>2. /\ rest \in {<<>>, <<NotANumber>>, <<1>>, <<1, 2>>}
          /\ c \in 0 .. WordRange - 1 /\ ttl \in 0 .. WordRange - 1
        BY <2>2, PartsOfToken
    <3> HIDE DEF f, rest, c, ttl
    <3>3. /\ f[1] \in (0 .. WordRange - 1) \cup {NotANumber}
          /\ f[2] \in (0 .. WordRange - 1) \cup {NotANumber}
        BY <3>1, <3>2, FieldsOf
    <3> QED
        BY <3>3 DEF f
  <2>5. Tokens!ReadFields(text) \in Tokens!Token \cup {None}
    <3>1. [first |-> text.first, rest |-> <<>>] \in {[first |-> u.first, rest |-> <<>>] : u \in UserIds}
        BY <2>2, <2>3, PartsOfToken
    <3> QED
        BY <2>4, <3>1 DEF Tokens!ReadFields, Tokens!Token
  <2> QED
      BY <2>1, <2>5 DEF TokenInv, Tokens!TypeOK, Written
<1>5. CASE Tokens!Destroy
    BY <1>5 DEF Tokens!Destroy, TokenInv, Tokens!TypeOK
<1>6. CASE UNCHANGED token_vars
    BY <1>6 DEF token_vars, TokenInv, Tokens!TypeOK, Written
<1> QED
    BY <1>1, <1>2, <1>3, <1>4, <1>5, <1>6 DEF Tokens!Next

(* Remainders: what wrapping does to an age and to a time to live. *)
LEMMA Wrapped ==
    ASSUME NEW W \in Nat \ {0}
    PROVE  /\ \A x \in 0 .. W - 1 : x % W = x
           /\ \A x \in Int : x < 0 /\ x > -W => x % W = W + x
           /\ \A x \in Nat : x % W <= x /\ x % W \in Nat
OBVIOUS

LEMMA TokenValid == TokenInv => ValidForTtl
<1> SUFFICES ASSUME TokenInv, token # None PROVE ValidForTtl
    BY DEF ValidForTtl, Tokens!ValidForTtl
<1> DEFINE age == token_now - token.created_at
           life == token.ttl_seconds * SecondMs
<1>1. /\ token \in Tokens!Token /\ token.user_id \in UserIds
      /\ token.created_at \in 0 .. WordRange - 1 /\ token.ttl_seconds \in 0 .. WordRange - 1
    BY PartsOfToken
<1>2. token_now \in 0 .. MaxTime /\ MaxTime < WordRange /\ MaxTime \in Nat /\ WordRange \in Nat \ {0}
    BY LimiterAssumption, TokenAssumption DEF TokenInv, Tokens!TypeOK
<1>3. /\ age \in Int /\ age < WordRange /\ age > - WordRange /\ life \in Nat
      /\ Tokens!Valid(token) <=> age % WordRange < life % WordRange
    BY <1>1, <1>2, TokenAssumption DEF Tokens!Valid
<1>4. ASSUME text # None, Tokens!Plain(token.user_id)
      PROVE  Tokens!ReadFields(text) = token
  <2>1. text = Written(token) /\ token.user_id.rest = <<>>
        /\ token.user_id.first \notin EmptyNames \cup LongNames
      BY <1>4 DEF TokenInv, Tokens!Plain
  <2>2. text.first = token.user_id.first
        /\ text.fields = token.user_id.rest \o <<token.created_at, token.ttl_seconds>>
      BY <2>1 DEF Written
  <2>3. text.fields[1] = token.created_at /\ text.fields[2] = token.ttl_seconds
      BY <2>1, <2>2, PartsOfToken, FieldsOf
  <2>4. NotANumber \notin {text.fields[1], text.fields[2]}
      BY <1>1, <2>3, TokenAssumption
  <2>5. token.user_id = [first |-> text.first, rest |-> <<>>]
      BY <1>1, <2>1, <2>2 DEF UserIds
  <2>6. token = [user_id |-> token.user_id, created_at |-> token.created_at,
                 ttl_seconds |-> token.ttl_seconds]
      BY <1>1 DEF Tokens!Token
  <2> QED
      BY <2>1, <2>2, <2>3, <2>4, <2>5, <2>6 DEF Tokens!ReadFields
<1> HIDE DEF age, life
<1>5. age >= 0 => age % WordRange = age
    BY <1>2, <1>3, Wrapped
<1>6. age < 0 => age % WordRange = WordRange + age
    BY <1>2, <1>3, Wrapped
<1>7. life % WordRange <= life /\ life % WordRange \in Nat /\ (life < WordRange => life % WordRange = life)
    BY <1>2, <1>3, Wrapped
<1>8. /\ age >= 0 /\ Tokens!Valid(token) => age < life
      /\ age >= 0 /\ age < life /\ life < WordRange => Tokens!Valid(token)
      /\ age < 0 /\ Tokens!Valid(token) => life > WordRange + age
  <2> DEFINE a == age % WordRange
             l == life % WordRange
  <2>1. a \in Int /\ l \in Int
      BY <1>2, <1>3, <1>5, <1>6, <1>7
  <2> HIDE DEF a, l
  <2>2. (age >= 0 => a = age) /\ (age < 0 => a = WordRange + age)
      BY <1>5, <1>6 DEF a
  <2>3. l <= life /\ (life < WordRange => l = life) /\ (Tokens!Valid(token) <=> a < l)
      BY <1>3, <1>7 DEF a, l
  <2> QED
      BY <1>2, <1>3, <2>1, <2>2, <2>3
<1> QED
    BY <1>4, <1>8 DEF ValidForTtl, Tokens!ValidForTtl, age, life

-----------------------------------------------------------------------------
(* The rate limiter.                                                        *)

(* The count of an entry is one of its grants, the last ones, all of them   *)
(* made since its window began; it is made for a first grant.               *)
CountsGrants ==
    \A c \in Limited :
        window[c] # None =>
            /\ window[c].request_count <= Len(grants[c])
            /\ \A i \in Len(grants[c]) - window[c].request_count + 1 .. Len(grants[c]) :
                  grants[c][i] >= window[c].window_start
            /\ MaxRequests > 0 => window[c].request_count > 0

(* How many grants between t and t + window_ms can belong to the run of the *)
(* clock since it was last set back, when it shows n and the entry is e.    *)
(* None before the clock is there.  Of a window that began before t, all    *)
(* but the first, which was made before t.  A window that began in between  *)
(* adds its own to as many from the window before it, which began before t  *)
(* in its turn, and a later one adds nothing.                               *)
Room(e, n, t) ==
    IF e = None \/ n < t \/ n < e.window_start THEN 0
    ELSE IF e.window_start < t THEN e.request_count - 1
    ELSE IF e.window_start <= t + WindowMs THEN MaxRequests - 1 + e.request_count
    ELSE 2 * MaxRequests - 1

(* Each earlier run of the clock accounts for less than two windows. *)
GrantsHaveRoom ==
    MaxRequests > 0 =>
        \A c \in Limited, t \in 0 .. MaxTime :
            Cardinality(Limiter!GrantsFrom(c, t)) <=
                turns * (2 * MaxRequests - 1) + Room(window[c], now, t)

LimiterInv == Limiter!TypeOK /\ CountsGrants /\ GrantsHaveRoom

Window == [request_count : 0 .. MaxRequests, window_start : 0 .. MaxTime]

LEMMA SameCardinality == \A S : Limiter!Cardinality(S) = Cardinality(S)
BY DEF Limiter!Cardinality, Cardinality

(* The parts of the limiter's state. *)
LEMMA LimiterTypes ==
    ASSUME LimiterInv
    PROVE  /\ MaxRequests \in Nat /\ WindowMs \in Nat /\ MaxTime \in Nat /\ MaxSteps \in Nat
           /\ now \in Nat /\ now <= MaxTime /\ turns \in Nat
           /\ window \in [Limited -> Window \cup {None}] /\ grants \in [Limited -> Seq(0 .. MaxTime)]
           /\ \A c \in Limited : /\ grants[c] \in Seq(0 .. MaxTime) /\ Len(grants[c]) \in Nat
                                 /\ window[c] # None =>
                                       /\ window[c] \in Window
                                       /\ window[c].request_count \in Nat /\ window[c].window_start \in Nat
                                       /\ window[c].request_count <= MaxRequests
                                       /\ MaxRequests > 0 => window[c].request_count > 0
<1>1. /\ now \in 0 .. MaxTime /\ turns \in 0 .. MaxSteps
      /\ window \in [Limited -> Window \cup {None}] /\ grants \in [Limited -> Seq(0 .. MaxTime)]
    BY DEF LimiterInv, Limiter!TypeOK, Window
<1>2. \A c \in Limited : grants[c] \in Seq(0 .. MaxTime) /\ Len(grants[c]) \in Nat
    BY <1>1, LenProperties
<1>3. \A c \in Limited : window[c] # None => window[c] \in Window
    BY <1>1
<1>4. \A e \in Window : /\ e.request_count \in Nat /\ e.window_start \in Nat
                        /\ e.request_count <= MaxRequests
    BY LimiterAssumption DEF Window
<1>5. \A c \in Limited : window[c] # None /\ MaxRequests > 0 => window[c].request_count > 0
    BY DEF LimiterInv, CountsGrants
<1> QED
    BY <1>1, <1>2, <1>3, <1>4, <1>5, LimiterAssumption

LEMMA RoomBound ==
    ASSUME NEW e, NEW n \in Nat, NEW t \in Nat, MaxRequests \in Nat, MaxRequests > 0, WindowMs \in Nat,
           e # None => /\ e.request_count \in Nat /\ e.window_start \in Nat
                       /\ e.request_count <= MaxRequests /\ e.request_count > 0
    PROVE  Room(e, n, t) \in 0 .. 2 * MaxRequests - 1
BY DEF Room

(* The grants in an interval are finitely many. *)
LEMMA GrantsFinite ==
    ASSUME LimiterInv, NEW c \in Limited, NEW t
    PROVE  /\ IsFiniteSet(Limiter!GrantsFrom(c, t))
           /\ Cardinality(Limiter!GrantsFrom(c, t)) \in Nat
<1>1. Len(grants[c]) \in Nat
    BY LimiterTypes
<1>2. Limiter!GrantsFrom(c, t) \subseteq 1 .. Len(grants[c])
    BY DEF Limiter!GrantsFrom
<1>3. IsFiniteSet(1 .. Len(grants[c]))
    BY <1>1, FS_Interval
<1> QED
    BY <1>2, <1>3, FS_Subset, FS_CardinalityType

LEMMA LimiterInit == Limiter!Init => LimiterInv
<1> SUFFICES ASSUME Limiter!Init PROVE LimiterInv
    OBVIOUS
<1>1. /\ now = 0 /\ turns = 0 /\ window = [c \in Limited |-> None] /\ grants = [c \in Limited |-> <<>>]
    BY DEF Limiter!Init
<1>2. Limiter!TypeOK
    BY <1>1, LimiterAssumption DEF Limiter!TypeOK
<1>3. CountsGrants
    BY <1>1 DEF CountsGrants
<1>4. GrantsHaveRoom
  <2> SUFFICES ASSUME NEW c \in Limited, NEW t \in 0 .. MaxTime, MaxRequests > 0
               PROVE  Cardinality(Limiter!GrantsFrom(c, t)) <=
                          turns * (2 * MaxRequests - 1) + Room(window[c], now, t)
      BY DEF GrantsHaveRoom
  <2>1. Limiter!GrantsFrom(c, t) = {}
      BY <1>1 DEF Limiter!GrantsFrom
  <2>2. Room(window[c], now, t) = 0
      BY <1>1 DEF Room
  <2>3. turns * (2 * MaxRequests - 1) = 0
      BY <1>1, LimiterAssumption
  <2> QED
      BY <2>1, <2>2, <2>3, FS_EmptySet
<1> QED
    BY <1>2, <1>3, <1>4 DEF LimiterInv

(* The clock moves on or is set back. *)
LEMMA ClockStep ==
    ASSUME LimiterInv, Limiter!Tick \/ \E t \in 0 .. MaxTime : Limiter!StepBack(t)
    PROVE  LimiterInv'
<1>0. /\ MaxRequests \in Nat /\ WindowMs \in Nat /\ MaxTime \in Nat /\ MaxSteps \in Nat
      /\ now \in Nat /\ now <= MaxTime /\ turns \in Nat
    BY LimiterTypes
<1>1. /\ UNCHANGED <<window, grants>> /\ now' \in 0 .. MaxTime /\ now' \in Nat
      /\ \/ turns' = turns /\ now' = now + 1
         \/ turns' = turns + 1 /\ turns < MaxSteps
    BY <1>0 DEF Limiter!Tick, Limiter!StepBack
<1>2. Limiter!TypeOK'
    BY <1>0, <1>1 DEF LimiterInv, Limiter!TypeOK
<1>3. CountsGrants'
    BY <1>1 DEF LimiterInv, CountsGrants
<1>4. GrantsHaveRoom'
  <2> SUFFICES ASSUME NEW c \in Limited, NEW t \in 0 .. MaxTime, MaxRequests > 0
               PROVE  Cardinality(Limiter!GrantsFrom(c, t)') <=
                          turns' * (2 * MaxRequests - 1) + Room(window'[c], now', t)
      BY DEF GrantsHaveRoom
  <2> DEFINE K == 2 * MaxRequests - 1
             e == window[c]
             old == Room(e, now, t)
             new == Room(e, now', t)
             n == Cardinality(Limiter!GrantsFrom(c, t))
             P == turns * K
  <2>1. Limiter!GrantsFrom(c, t)' = Limiter!GrantsFrom(c, t) /\ window'[c] = e
      BY <1>1 DEF Limiter!GrantsFrom
  <2>2. n <= P + old
      BY DEF LimiterInv, GrantsHaveRoom
  <2>3. e # None => /\ e.request_count \in Nat /\ e.window_start \in Nat
                    /\ e.request_count <= MaxRequests /\ e.request_count > 0
      BY LimiterTypes
  <2>4. n \in Nat /\ K \in Nat /\ t \in Nat /\ P \in Nat
      BY <1>0, GrantsFinite
  <2>5. old \in 0 .. K /\ new \in 0 .. K
      BY <1>0, <1>1, <2>3, <2>4, RoomBound
  <2>6. CASE turns' = turns /\ now' = now + 1
    <3>1. new >= old
        BY <1>0, <2>3, <2>4, <2>6 DEF Room
    <3>2. turns' * K = P
        BY <2>6
    <3> HIDE DEF K, e, old, new, n, P
    <3>3. n <= P + new
        BY <2>2, <2>4, <2>5, <3>1
    <3> QED
        BY <2>1, <3>2, <3>3 DEF n, new, K
  <2>7. CASE turns' = turns + 1
    <3>1. turns' * K = P + K
        BY <1>0, <2>4, <2>7
    <3> HIDE DEF K, e, old, new, n, P
    <3>2. n <= (P + K) + new
        BY <2>2, <2>4, <2>5
    <3> QED
        BY <2>1, <3>1, <3>2 DEF n, new, K
  <2> QED
      BY <1>1, <2>6, <2>7
<1> QED
    BY <1>2, <1>3, <1>4 DEF LimiterInv

(* The entry rate_limiter_allow decides on. *)
LEMMA CurrentWindow ==
    ASSUME LimiterInv, NEW c \in Limited
    PROVE  /\ Limiter!Current(c) \in Window
           /\ \/ /\ window[c] = None \/ Limiter!WindowOver(window[c])
                 /\ Limiter!Current(c).request_count = 0 /\ Limiter!Current(c).window_start = now
              \/ /\ window[c] # None /\ ~ Limiter!WindowOver(window[c])
                 /\ Limiter!Current(c) = window[c]
<1>1. [request_count |-> 0, window_start |-> now] \in Window
    BY LimiterTypes DEF Window
<1>2. window[c] # None => window[c] \in Window
    BY LimiterTypes
<1> QED
    BY <1>1, <1>2 DEF Limiter!Current

LEMMA AllowStep ==
    ASSUME LimiterInv, NEW c \in Limited, Limiter!Allow(c)
    PROVE  LimiterInv'
<1> DEFINE cur == Limiter!Current(c)
           f == [cur EXCEPT !.request_count = @ + 1]
           L == Len(grants[c])
<1>0. /\ MaxRequests \in Nat /\ WindowMs \in Nat /\ MaxTime \in Nat
      /\ now \in Nat /\ now <= MaxTime /\ turns \in Nat
      /\ window \in [Limited -> Window \cup {None}] /\ grants \in [Limited -> Seq(0 .. MaxTime)]
      /\ grants[c] \in Seq(0 .. MaxTime) /\ L \in Nat
    BY LimiterTypes
<1>1. /\ cur.request_count < MaxRequests /\ window' = [window EXCEPT ![c] = f]
      /\ grants' = [grants EXCEPT ![c] = Append(grants[c], now)] /\ UNCHANGED <<now, turns>>
    BY DEF Limiter!Allow
<1>2. /\ cur \in Window
      /\ \/ /\ window[c] = None \/ Limiter!WindowOver(window[c])
            /\ cur.request_count = 0 /\ cur.window_start = now
         \/ /\ window[c] # None /\ ~ Limiter!WindowOver(window[c]) /\ cur = window[c]
    BY CurrentWindow
<1> HIDE DEF cur
<1>3. /\ f \in Window /\ f # None /\ f.request_count = cur.request_count + 1
      /\ f.window_start = cur.window_start
      /\ cur.request_count \in Nat /\ cur.window_start \in Nat
  <2>1. cur.request_count \in 0 .. MaxRequests /\ cur.window_start \in 0 .. MaxTime
      BY <1>2 DEF Window
  <2>2. f = [request_count |-> cur.request_count + 1, window_start |-> cur.window_start]
      BY <1>2 DEF Window
  <2> HIDE DEF f
  <2>3. cur.request_count + 1 \in 0 .. MaxRequests
      BY <1>0, <1>1, <2>1
  <2>4. f \in Window
      BY <2>1, <2>2, <2>3 DEF Window
  <2>5. f # None
      BY <2>4, LimiterAssumption DEF Window
  <2> QED
      BY <1>0, <2>1, <2>2, <2>4, <2>5
<1> HIDE DEF f
<1> DEFINE g == Append(grants[c], now)
<1>4. /\ g \in Seq(0 .. MaxTime) /\ Len(g) = L + 1
      /\ \A i \in 1 .. L : g[i] = grants[c][i]
      /\ g[L + 1] = now
  <2>1. now \in 0 .. MaxTime
      BY <1>0
  <2> QED
      BY <1>0, <2>1, AppendProperties
<1>5. /\ window' \in [Limited -> Window \cup {None}] /\ window'[c] = f
      /\ \A d \in Limited \ {c} : window'[d] = window[d]
    BY <1>0, <1>1, <1>3
<1>6. grants'[c] = g /\ \A d \in Limited \ {c} : grants'[d] = grants[d]
    BY <1>0, <1>1
<1>7. grants' \in [Limited -> Seq(0 .. MaxTime)]
  <2> HIDE DEF g
  <2>1. grants' = [grants EXCEPT ![c] = g]
      BY <1>1 DEF g
  <2> QED
      BY <1>0, <1>4, <2>1
<1> HIDE DEF g, L
<1>8. Limiter!TypeOK'
    BY <1>1, <1>5, <1>7 DEF LimiterInv, Limiter!TypeOK, Window
<1>9. CountsGrants'
  <2> SUFFICES ASSUME NEW d \in Limited, window'[d] # None
               PROVE  /\ window'[d].request_count <= Len(grants'[d])
                      /\ \A i \in Len(grants'[d]) - window'[d].request_count + 1 .. Len(grants'[d]) :
                            grants'[d][i] >= window'[d].window_start
                      /\ MaxRequests > 0 => window'[d].request_count > 0
      BY DEF CountsGrants
  <2>1. CASE d # c
      BY <1>5, <1>6, <2>1 DEF LimiterInv, CountsGrants
  <2>2. CASE d = c
    <3>1. /\ cur.request_count <= L
          /\ \A i \in L - cur.request_count + 1 .. L : grants[c][i] >= cur.window_start
          /\ now >= cur.window_start
      <4>1. CASE cur.request_count = 0 /\ cur.window_start = now
          BY <1>0, <4>1
      <4>2. CASE window[c] # None /\ ~ Limiter!WindowOver(window[c]) /\ cur = window[c]
        <5>1. now >= cur.window_start
            BY <1>0, <1>3, <4>2 DEF Limiter!WindowOver
        <5> QED
            BY <4>2, <5>1 DEF LimiterInv, CountsGrants, L
      <4> QED
          BY <1>2, <4>1, <4>2
    <3>2. /\ f.request_count <= L + 1 /\ f.request_count > 0
          /\ L + 1 - f.request_count + 1 = L - cur.request_count + 1
          /\ L - cur.request_count + 1 >= 1
        BY <1>0, <1>3, <3>1
    <3>3. ASSUME NEW i \in L - cur.request_count + 1 .. L + 1 PROVE g[i] >= f.window_start
      <4>1. i = L + 1 \/ (i \in 1 .. L /\ i \in L - cur.request_count + 1 .. L)
          BY <1>0, <1>3, <3>2
      <4> QED
          BY <1>3, <1>4, <3>1, <4>1
    <3>4. window'[d] = f /\ grants'[d] = g /\ Len(g) = L + 1
        BY <1>4, <1>5, <1>6, <2>2
    <3>5. \A i \in L + 1 - f.request_count + 1 .. L + 1 : g[i] >= f.window_start
        BY <3>2, <3>3
    <3> DEFINE Counted(e, q) == /\ e.request_count <= Len(q)
                                /\ \A i \in Len(q) - e.request_count + 1 .. Len(q) : q[i] >= e.window_start
                                /\ MaxRequests > 0 => e.request_count > 0
    <3>6. Counted(f, g)
      <4> DEFINE n == Len(g)
      <4>0. n = L + 1
          BY <3>4
      <4> HIDE DEF n
      <4>1. n - f.request_count + 1 .. n = L + 1 - f.request_count + 1 .. L + 1
          BY <1>0, <1>3, <4>0
      <4>2. f.request_count <= Len(g)
          BY <3>2, <3>4
      <4> QED
          BY <3>2, <3>5, <4>1, <4>2 DEF n
    <3> HIDE DEF Counted
    <3>7. Counted(window'[d], grants'[d])
        BY <3>4, <3>6
    <3> QED
        BY <3>7 DEF Counted
  <2> QED
      BY <2>1, <2>2
<1>10. GrantsHaveRoom'
  <2> SUFFICES ASSUME NEW d \in Limited, NEW t \in 0 .. MaxTime, MaxRequests > 0
               PROVE  Cardinality(Limiter!GrantsFrom(d, t)') <=
                          turns' * (2 * MaxRequests - 1) + Room(window'[d], now', t)
      BY DEF GrantsHaveRoom
  <2> DEFINE before == Limiter!GrantsFrom(d, t)
             after == {i \in 1 .. Len(grants'[d]) : grants'[d][i] >= t /\ grants'[d][i] <= t + WindowMs}
             P == turns * (2 * MaxRequests - 1)
  <2>1. /\ Limiter!GrantsFrom(d, t)' = after
        /\ before = {i \in 1 .. Len(grants[d]) : grants[d][i] >= t /\ grants[d][i] <= t + WindowMs}
      BY DEF Limiter!GrantsFrom
  <2>2. Cardinality(before) <= P + Room(window[d], now, t) /\ turns' = turns /\ now' = now
      BY <1>1 DEF LimiterInv, GrantsHaveRoom
  <2>3. CASE d # c
    <3>1. after = before /\ window'[d] = window[d]
        BY <1>5, <1>6, <2>1, <2>3
    <3> QED
        BY <2>1, <2>2, <3>1
  <2>4. CASE d = c
    <3> DEFINE in == now >= t /\ now <= t + WindowMs
    <3>1. after = IF in THEN before \cup {L + 1} ELSE before
      <4>1. after = {i \in 1 .. L + 1 : g[i] >= t /\ g[i] <= t + WindowMs}
          BY <1>4, <1>6, <2>4
      <4>2. before = {i \in 1 .. L : g[i] >= t /\ g[i] <= t + WindowMs}
          BY <1>4, <2>1, <2>4 DEF L
      <4>3. 1 .. L + 1 = (1 .. L) \cup {L + 1}
          BY <1>0
      <4> HIDE DEF after, before
      <4>4. CASE in
          BY <1>4, <4>1, <4>2, <4>3, <4>4
      <4>5. CASE ~ in
          BY <1>4, <4>1, <4>2, <4>3, <4>5
      <4> QED
          BY <4>4, <4>5
    <3>2. L + 1 \notin before
        BY <1>0, <2>1, <2>4 DEF L
    <3>3. IsFiniteSet(before) /\ Cardinality(before) \in Nat
        BY <2>4, GrantsFinite
    <3> HIDE DEF after, before
    <3>4. Cardinality(after) = Cardinality(before) + (IF in THEN 1 ELSE 0)
      <4>1. CASE in
        <5>1. after = before \cup {L + 1}
            BY <3>1, <4>1
        <5> QED
            BY <3>2, <3>3, <4>1, <5>1, FS_AddElement
      <4>2. CASE ~ in
        <5>1. after = before
            BY <3>1, <4>2
        <5> QED
            BY <3>3, <4>2, <5>1
      <4> QED
          BY <4>1, <4>2
    <3> DEFINE old == Room(window[c], now, t)
               new == Room(f, now, t)
               one == IF in THEN 1 ELSE 0
    <3>5. t \in Nat /\ t <= MaxTime
        BY <1>0
    <3>6. window[c] # None => /\ window[c].request_count \in Nat /\ window[c].window_start \in Nat
                             /\ window[c].request_count <= MaxRequests /\ window[c].request_count > 0
        BY LimiterTypes
    <3>7. old \in Int /\ new \in Int /\ new >= old + one
      <4>1. CASE window[c] # None /\ ~ Limiter!WindowOver(window[c]) /\ cur = window[c]
        <5> DEFINE e == window[c]
                   q == e.request_count
                   w == e.window_start
        <5>1. q \in Nat /\ w \in Nat /\ q > 0 /\ q < MaxRequests /\ e # None
            BY <1>1, <3>6, <4>1
        <5>2. f.request_count = q + 1 /\ f.window_start = w /\ f # None
            BY <1>3, <4>1
        <5>3. w <= now /\ now - w <= WindowMs
            BY <1>0, <4>1, <5>1 DEF Limiter!WindowOver
        <5> HIDE DEF e, q, w
        <5>4. old = IF now < t THEN 0
                    ELSE IF w < t THEN q - 1
                    ELSE IF w <= t + WindowMs THEN MaxRequests - 1 + q
                    ELSE 2 * MaxRequests - 1
            BY <1>0, <5>1, <5>3 DEF Room, e, q, w
        <5>5. new = IF now < t THEN 0
                    ELSE IF w < t THEN q
                    ELSE IF w <= t + WindowMs THEN MaxRequests + q
                    ELSE 2 * MaxRequests - 1
            BY <1>0, <5>1, <5>2, <5>3 DEF Room
        <5> HIDE DEF old, new
        <5>6. CASE now < t
            BY <1>0, <3>5, <5>4, <5>5, <5>6
        <5>7. CASE ~ (now < t) /\ w < t
            BY <1>0, <3>5, <5>1, <5>3, <5>4, <5>5, <5>7
        <5>8. CASE ~ (now < t) /\ ~ (w < t) /\ w <= t + WindowMs
            BY <1>0, <3>5, <5>1, <5>3, <5>4, <5>5, <5>8
        <5>9. CASE ~ (now < t) /\ ~ (w < t) /\ ~ (w <= t + WindowMs)
            BY <1>0, <3>5, <5>1, <5>3, <5>4, <5>5, <5>9
        <5> QED
            BY <5>6, <5>7, <5>8, <5>9
      <4>2. CASE /\ window[c] = None \/ Limiter!WindowOver(window[c])
                 /\ cur.request_count = 0 /\ cur.window_start = now
          BY <1>0, <1>1, <1>3, <3>5, <3>6, <4>2, SMTT(60) DEF Room, Limiter!WindowOver
      <4> QED
          BY <1>2, <4>1, <4>2
    <3>8. P \in Int /\ one \in Int
        BY <1>0
    <3>9. Cardinality(after) = Cardinality(before) + one /\ Cardinality(before) <= P + old
        BY <2>2, <2>4, <3>4
    <3> HIDE DEF old, new, one, P
    <3>10. Cardinality(after) <= P + new
        BY <3>3, <3>7, <3>8, <3>9
    <3> QED
        BY <1>5, <2>1, <2>2, <2>4, <3>10 DEF new, P
  <2> QED
      BY <2>3, <2>4
<1> QED
    BY <1>8, <1>9, <1>10 DEF LimiterInv

(* With a limit above 0 a refused client has an entry, and it is kept. *)
LEMMA DenyStep ==
    ASSUME LimiterInv, NEW c \in Limited, Limiter!Deny(c)
    PROVE  LimiterInv'
<1> DEFINE cur == Limiter!Current(c)
<1>0. /\ MaxRequests \in Nat /\ window \in [Limited -> Window \cup {None}]
      /\ \A d \in Limited : Len(grants[d]) \in Nat
    BY LimiterTypes
<1>1. /\ cur.request_count >= MaxRequests /\ window' = [window EXCEPT ![c] = cur]
      /\ UNCHANGED <<now, turns, grants>>
    BY DEF Limiter!Deny
<1>2. /\ cur \in Window
      /\ \/ cur.request_count = 0
         \/ window[c] # None /\ cur = window[c]
    BY CurrentWindow
<1> HIDE DEF cur
<1>3. window' \in [Limited -> Window \cup {None}] /\ window'[c] = cur /\ \A d \in Limited \ {c} : window'[d] = window[d]
    BY <1>0, <1>1, <1>2
<1>4. Limiter!TypeOK'
    BY <1>1, <1>3 DEF LimiterInv, Limiter!TypeOK, Window
<1>5. CASE cur = window[c]
  <2>1. window' = window
      BY <1>0, <1>1, <1>5
  <2>2. CountsGrants'
      BY <1>1, <2>1 DEF LimiterInv, CountsGrants
  <2>3. GrantsHaveRoom'
      BY <1>1, <2>1 DEF LimiterInv, GrantsHaveRoom, Limiter!GrantsFrom
  <2> QED
      BY <1>4, <2>2, <2>3 DEF LimiterInv
<1>6. CASE cur.request_count = 0
  <2>1. ~ (MaxRequests > 0)
      BY <1>0, <1>1, <1>6
  <2>2. CountsGrants'
    <3> SUFFICES ASSUME NEW d \in Limited, window'[d] # None
                 PROVE  /\ window'[d].request_count <= Len(grants[d])
                        /\ \A i \in Len(grants[d]) - window'[d].request_count + 1 .. Len(grants[d]) :
                              grants[d][i] >= window'[d].window_start
        BY <1>1, <2>1 DEF CountsGrants
    <3>1. CASE d # c
        BY <1>3, <3>1 DEF LimiterInv, CountsGrants
    <3>2. CASE d = c
        BY <1>0, <1>3, <1>6, <3>2
    <3> QED
        BY <3>1, <3>2
  <2> QED
      BY <1>4, <2>1, <2>2 DEF LimiterInv, GrantsHaveRoom
<1> QED
    BY <1>2, <1>5, <1>6

LEMMA ForgetStep ==
    ASSUME LimiterInv, NEW R \in SUBSET Limited, UNCHANGED <<now, turns>>,
           window' = [c \in Limited |-> IF c \in R THEN None ELSE window[c]],
           grants' = [c \in Limited |-> IF c \in R THEN <<>> ELSE grants[c]]
    PROVE  LimiterInv'
<1>0. /\ MaxRequests \in Nat /\ turns \in Nat
      /\ window \in [Limited -> Window \cup {None}] /\ grants \in [Limited -> Seq(0 .. MaxTime)]
    BY LimiterTypes
<1>1. Limiter!TypeOK'
  <2>1. <<>> \in Seq(0 .. MaxTime)
      BY EmptySeq
  <2>2. \A c \in Limited : window[c] \in Window \cup {None} /\ grants[c] \in Seq(0 .. MaxTime)
      BY <1>0
  <2>3. window' \in [Limited -> Window \cup {None}]
      BY <2>2
  <2>4. grants' \in [Limited -> Seq(0 .. MaxTime)]
      BY <2>1, <2>2
  <2> QED
      BY <2>3, <2>4 DEF LimiterInv, Limiter!TypeOK, Window
<1>2. CountsGrants'
    BY DEF LimiterInv, CountsGrants
<1>3. GrantsHaveRoom'
  <2> SUFFICES ASSUME NEW c \in Limited, NEW t \in 0 .. MaxTime, MaxRequests > 0
               PROVE  Cardinality(Limiter!GrantsFrom(c, t)') <=
                          turns * (2 * MaxRequests - 1) + Room(window'[c], now, t)
      BY DEF GrantsHaveRoom
  <2>1. CASE c \in R
    <3>1. Limiter!GrantsFrom(c, t)' = {}
        BY <2>1 DEF Limiter!GrantsFrom
    <3>2. Room(window'[c], now, t) = 0
        BY <2>1 DEF Room
    <3>3. turns * (2 * MaxRequests - 1) \in Nat
        BY <1>0
    <3> QED
        BY <3>1, <3>2, <3>3, FS_EmptySet
  <2>2. CASE c \notin R
    <3>1. window'[c] = window[c] /\ grants'[c] = grants[c]
        BY <2>2
    <3>2. Limiter!GrantsFrom(c, t)' = Limiter!GrantsFrom(c, t)
        BY <3>1 DEF Limiter!GrantsFrom
    <3> QED
        BY <3>1, <3>2 DEF LimiterInv, GrantsHaveRoom
  <2> QED
      BY <2>1, <2>2
<1> QED
    BY <1>1, <1>2, <1>3 DEF LimiterInv

LEMMA LimiterStep == LimiterInv /\ [Limiter!Next]_limiter_vars => LimiterInv'
<1> SUFFICES ASSUME LimiterInv, [Limiter!Next]_limiter_vars PROVE LimiterInv'
    OBVIOUS
<1>0. window \in [Limited -> Window \cup {None}] /\ grants \in [Limited -> Seq(0 .. MaxTime)]
    BY LimiterTypes
<1>1. ASSUME NEW c \in Limited, Limiter!Reset(c) PROVE LimiterInv'
  <2>1. /\ window' = [d \in Limited |-> IF d \in {c} THEN None ELSE window[d]]
        /\ grants' = [d \in Limited |-> IF d \in {c} THEN <<>> ELSE grants[d]]
        /\ UNCHANGED <<now, turns>> /\ {c} \in SUBSET Limited
      BY <1>0, <1>1 DEF Limiter!Reset
  <2> QED
      BY <2>1, ForgetStep
<1>2. CASE Limiter!Destroy
  <2>1. /\ window' = [d \in Limited |-> IF d \in Limited THEN None ELSE window[d]]
        /\ grants' = [d \in Limited |-> IF d \in Limited THEN <<>> ELSE grants[d]]
        /\ UNCHANGED <<now, turns>> /\ Limited \in SUBSET Limited
      BY <1>2 DEF Limiter!Destroy
  <2> QED
      BY <2>1, ForgetStep
<1>3. CASE UNCHANGED limiter_vars
  <2>1. now' = now /\ turns' = turns /\ window' = window /\ grants' = grants
      BY <1>3 DEF limiter_vars
  <2> QED
      BY <2>1 DEF LimiterInv, Limiter!TypeOK, CountsGrants, GrantsHaveRoom, Limiter!GrantsFrom
<1> QED
    BY <1>1, <1>2, <1>3, ClockStep, AllowStep, DenyStep DEF Limiter!Next

LEMMA LimiterBound == LimiterInv => AtMostTwoWindowfuls
<1> SUFFICES ASSUME LimiterInv, MaxRequests > 0, NEW c \in Limited, NEW t \in 0 .. MaxTime
             PROVE  Cardinality(Limiter!GrantsFrom(c, t)) <= (turns + 1) * (2 * MaxRequests - 1)
    BY SameCardinality DEF AtMostTwoWindowfuls, Limiter!AtMostTwoWindowfuls
<1> DEFINE K == 2 * MaxRequests - 1
           P == turns * K
           n == Cardinality(Limiter!GrantsFrom(c, t))
           room == Room(window[c], now, t)
<1>1. /\ MaxRequests \in Nat /\ WindowMs \in Nat /\ now \in Nat /\ turns \in Nat /\ t \in Nat
      /\ window[c] # None => /\ window[c].request_count \in Nat /\ window[c].window_start \in Nat
                            /\ window[c].request_count <= MaxRequests /\ window[c].request_count > 0
    BY LimiterTypes
<1>2. room \in 0 .. K
    BY <1>1, RoomBound
<1>3. n <= P + room /\ n \in Nat
    BY GrantsFinite DEF LimiterInv, GrantsHaveRoom
<1>4. (turns + 1) * K = P + K /\ P \in Nat /\ K \in Nat
    BY <1>1
<1> HIDE DEF K, P, n, room
<1>5. n <= P + K
    BY <1>2, <1>3, <1>4
<1> QED
    BY <1>4, <1>5 DEF K, n

LEMMA LimiterAllows == LimiterInv => NoneRefusedBelowLimit
<1> SUFFICES ASSUME LimiterInv, NEW c \in Limited,
                    Cardinality({i \in 1 .. Len(grants[c]) : grants[c][i] >= now - WindowMs}) < MaxRequests
             PROVE  Limiter!Current(c).request_count < MaxRequests
    BY SameCardinality DEF NoneRefusedBelowLimit, Limiter!NoneRefusedBelowLimit
<1> DEFINE recent == {i \in 1 .. Len(grants[c]) : grants[c][i] >= now - WindowMs}
           cur == Limiter!Current(c)
           L == Len(grants[c])
<1>0. /\ MaxRequests \in Nat /\ WindowMs \in Nat /\ now \in Nat /\ L \in Nat
      /\ grants[c] \in Seq(0 .. MaxTime) /\ MaxTime \in Nat
      /\ window[c] # None => window[c].request_count \in Nat /\ window[c].window_start \in Nat
    BY LimiterTypes
<1>1. IsFiniteSet(recent) /\ Cardinality(recent) \in Nat
  <2>1. recent \subseteq 1 .. L
      OBVIOUS
  <2>2. IsFiniteSet(1 .. L)
    <3>1. 1 \in Int /\ L \in Int
        BY <1>0
    <3> QED
        BY <3>1, FS_Interval
  <2> QED
      BY <2>1, <2>2, FS_Subset, FS_CardinalityType
<1>2. CASE cur.request_count = 0
    BY <1>0, <1>1, <1>2
<1>3. CASE window[c] # None /\ ~ Limiter!WindowOver(window[c]) /\ cur = window[c]
  <2> DEFINE r == window[c].request_count
             last == L - r + 1 .. L
  <2>1. /\ r \in Nat /\ r <= L /\ \A i \in last : grants[c][i] >= window[c].window_start
      BY <1>0, <1>3 DEF LimiterInv, CountsGrants
  <2>2. window[c].window_start \in Nat /\ window[c].window_start >= now - WindowMs
      BY <1>0, <1>3 DEF Limiter!WindowOver
  <2>3. last \subseteq 1 .. L
      BY <1>0, <2>1
  <2>4. last \subseteq recent
    <3>1. \A i \in 1 .. L : grants[c][i] \in Nat
        BY <1>0, ElementOfSeq
    <3> QED
        BY <1>0, <2>1, <2>2, <2>3, <3>1, SMTT(30)
  <2>5. IsFiniteSet(last) /\ Cardinality(last) = r
    <3>1. L - r + 1 \in Int /\ L \in Int
        BY <1>0, <2>1
    <3>2. IsFiniteSet(last) /\ Cardinality(last) = IF L - r + 1 > L THEN 0 ELSE L - (L - r + 1) + 1
        BY <3>1, FS_Interval
    <3>3. (L - r + 1 > L => r = 0) /\ L - (L - r + 1) + 1 = r
        BY <1>0, <2>1
    <3> QED
        BY <3>2, <3>3
  <2> HIDE DEF last, recent, L
  <2>6. Cardinality(last) <= Cardinality(recent)
      BY <1>1, <2>4, FS_Subset
  <2> QED
      BY <1>0, <1>1, <1>3, <2>1, <2>5, <2>6 DEF recent, L
<1> QED
    BY <1>2, <1>3, CurrentWindow

-----------------------------------------------------------------------------
(* The service registry, when its callers register one at a time.           *)

(* Ids are drawn in order: those registered, those deregistered and the one *)
(* that is about to be linked are all different, and below next_id.         *)
IdsAreFresh ==
    /\ \A i, j \in 1 .. Len(services) : services[i].id = services[j].id => i = j
    /\ \A i \in 1 .. Len(services) : services[i].id < next_id /\ services[i].id \notin gone
    /\ \A id \in gone : id < next_id
    /\ \A t \in Registrars :
          /\ register_pc[t] # "idle" => drawn[t] > 0
          /\ register_pc[t] = "loaded" => drawn[t] = next_id
          /\ register_pc[t] = "built" =>
                /\ drawn[t] < next_id /\ drawn[t] \notin gone
                /\ \A i \in 1 .. Len(services) : services[i].id # drawn[t]

(* The service of a copy was deregistered, or is in the list. *)
CopyIsKnown ==
    copy # None =>
        /\ copy.id < next_id
        /\ \/ copy.id \in gone
           \/ \E i \in 1 .. Len(services) : services[i].id = copy.id /\ services[i].name = copy.name

RegistryInv == Services!TypeOK /\ IdsAreFresh /\ CopyIsKnown

OneAtATime == \A t, u \in Registrars : t = u

(* The library's operators under the names the instance gives them. *)
LEMMA SameMin == \A S \in SUBSET Nat : S # {} => Services!Min(S) \in S
<1> SUFFICES ASSUME NEW S \in SUBSET Nat, S # {} PROVE Services!Min(S) \in S
    OBVIOUS
<1>1. \E m \in S : \A k \in S : m <= k
    BY LeastNumber
<1> QED
    BY <1>1 DEF Services!Min

LEMMA SameRemoveAt == \A s, k : Services!RemoveAt(s, k) = RemoveAt(s, k)
BY DEF Services!RemoveAt, RemoveAt

(* What the searches of the list find. *)
LEMMA FoundById ==
    ASSUME NEW id
    PROVE  \/ Services!FirstWith(id) = 0 /\ \A i \in 1 .. Len(services) : services[i].id # id
           \/ Services!FirstWith(id) \in 1 .. Len(services) /\ services[Services!FirstWith(id)].id = id
<1> DEFINE I == {i \in 1 .. Len(services) : services[i].id = id}
<1>1. Services!FirstWith(id) = IF I # {} THEN Services!Min(I) ELSE 0
    BY DEF Services!FirstWith, Services!SelectInSeq
<1>2. I \in SUBSET Nat
    OBVIOUS
<1>3. CASE I = {}
    BY <1>1, <1>3
<1>4. CASE I # {}
  <2> HIDE DEF I
  <2>1. Services!FirstWith(id) \in I
      BY <1>1, <1>2, <1>4, SameMin
  <2> QED
      BY <2>1 DEF I
<1> QED
    BY <1>3, <1>4

LEMMA FoundByName ==
    ASSUME NEW name
    PROVE  \/ Services!FirstNamed(name) = 0
           \/ Services!FirstNamed(name) \in 1 .. Len(services)
<1> DEFINE I == {i \in 1 .. Len(services) : services[i].name = name /\ services[i].healthy}
<1>1. Services!FirstNamed(name) = IF I # {} THEN Services!Min(I) ELSE 0
    BY DEF Services!FirstNamed, Services!SelectInSeq
<1>2. I \in SUBSET Nat
    OBVIOUS
<1>3. CASE I # {}
  <2> HIDE DEF I
  <2>1. Services!FirstNamed(name) \in I
      BY <1>1, <1>2, <1>3, SameMin
  <2> QED
      BY <2>1 DEF I
<1> QED
    BY <1>1, <1>3

LEMMA RegistryTypes ==
    ASSUME Services!TypeOK
    PROVE  /\ next_id \in Nat /\ next_id \in 1 .. MaxIds + 1 /\ MaxIds \in Nat
           /\ services \in Seq(Services!Service) /\ Len(services) \in Nat
           /\ \A i \in 1 .. Len(services) : services[i] \in Services!Service /\ services[i].id \in Nat
           /\ register_pc \in [Registrars -> {"idle", "loaded", "built"}]
           /\ drawn \in [Registrars -> 0 .. MaxIds] /\ \A t \in Registrars : drawn[t] \in Nat
           /\ copy \in Services!Service \cup {None} /\ gone \in SUBSET (1 .. MaxIds)
<1>1. MaxIds \in Nat
    BY RegistryAssumption
<1>2. services \in Seq(Services!Service)
    BY DEF Services!TypeOK
<1>3. Len(services) \in Nat /\ \A i \in 1 .. Len(services) : services[i] \in Services!Service
    BY <1>2, ElementOfSeq, LenProperties
<1>4. \A v \in Services!Service : v.id \in Nat
    BY DEF Services!Service
<1> QED
    BY <1>1, <1>2, <1>3, <1>4 DEF Services!TypeOK

LEMMA RegistryInit == Services!Init => RegistryInv
<1> SUFFICES ASSUME Services!Init PROVE RegistryInv
    OBVIOUS
<1>1. /\ next_id = 1 /\ services = <<>> /\ copy = None /\ gone = {}
      /\ register_pc = [t \in Registrars |-> "idle"] /\ drawn = [t \in Registrars |-> 0]
    BY DEF Services!Init
<1>2. Services!TypeOK
    BY <1>1, RegistryAssumption DEF Services!TypeOK
<1> QED
    BY <1>1, <1>2 DEF RegistryInv, IdsAreFresh, CopyIsKnown

(* A call of service_register, step by step. *)
LEMMA RegisterStep ==
    ASSUME RegistryInv, OneAtATime, NEW t \in Registrars,
           Services!LoadId(t) \/ Services!StoreId(t) \/ \E name \in Names : Services!Link(t, name)
    PROVE  RegistryInv'
<1>0. /\ next_id \in Nat /\ next_id \in 1 .. MaxIds + 1 /\ MaxIds \in Nat
      /\ services \in Seq(Services!Service) /\ Len(services) \in Nat
      /\ \A i \in 1 .. Len(services) : services[i] \in Services!Service /\ services[i].id \in Nat
      /\ register_pc \in [Registrars -> {"idle", "loaded", "built"}]
      /\ drawn \in [Registrars -> 0 .. MaxIds] /\ \A u \in Registrars : drawn[u] \in Nat
      /\ copy \in Services!Service \cup {None} /\ gone \in SUBSET (1 .. MaxIds)
    BY RegistryTypes DEF RegistryInv
<1>00. \A u \in Registrars : u = t
    BY DEF OneAtATime
<1>1. CASE Services!LoadId(t)
  <2>1. /\ next_id <= MaxIds /\ drawn' = [drawn EXCEPT ![t] = next_id]
        /\ register_pc' = [register_pc EXCEPT ![t] = "loaded"]
        /\ next_id' = next_id /\ services' = services /\ copy' = copy /\ gone' = gone
      BY <1>1 DEF Services!LoadId
  <2>2. Services!TypeOK'
      BY <1>0, <2>1 DEF RegistryInv, Services!TypeOK
  <2>3. IdsAreFresh'
      BY <1>0, <1>00, <2>1 DEF RegistryInv, IdsAreFresh
  <2>4. CopyIsKnown'
      BY <2>1 DEF RegistryInv, CopyIsKnown
  <2> QED
      BY <2>2, <2>3, <2>4 DEF RegistryInv
<1>2. CASE Services!StoreId(t)
  <2>1. /\ register_pc[t] = "loaded" /\ next_id' = drawn[t] + 1
        /\ register_pc' = [register_pc EXCEPT ![t] = "built"]
        /\ services' = services /\ drawn' = drawn /\ copy' = copy /\ gone' = gone
      BY <1>2 DEF Services!StoreId
  <2>2. drawn[t] = next_id /\ next_id' = next_id + 1
      BY <2>1 DEF RegistryInv, IdsAreFresh
  <2>3. Services!TypeOK'
      BY <1>0, <2>1, <2>2 DEF RegistryInv, Services!TypeOK
  <2>4. \A k \in Nat : k < next_id => k < next_id' /\ k # drawn[t]
      BY <1>0, <2>2
  <2>5. /\ \A i \in 1 .. Len(services) : services[i].id < next_id' /\ services[i].id # drawn[t]
        /\ \A id \in gone : id < next_id' /\ id # drawn[t]
    <3>1. \A i \in 1 .. Len(services) : services[i].id < next_id
        BY DEF RegistryInv, IdsAreFresh
    <3>2. \A id \in gone : id < next_id /\ id \in Nat
        BY <1>0 DEF RegistryInv, IdsAreFresh
    <3> QED
        BY <1>0, <2>4, <3>1, <3>2
  <2>6. drawn[t] < next_id' /\ drawn[t] > 0
      BY <1>0, <2>2
  <2>7. IdsAreFresh'
      BY <1>0, <1>00, <2>1, <2>5, <2>6 DEF RegistryInv, IdsAreFresh
  <2>8. CopyIsKnown'
    <3>1. copy # None => copy.id \in Nat
        BY <1>0 DEF Services!Service
    <3> QED
        BY <2>1, <2>4, <3>1 DEF RegistryInv, CopyIsKnown
  <2> QED
      BY <2>3, <2>7, <2>8 DEF RegistryInv
<1>3. ASSUME NEW name \in Names, Services!Link(t, name) PROVE RegistryInv'
  <2> DEFINE e == [id |-> drawn[t], name |-> name, healthy |-> TRUE]
             L == Len(services)
  <2>1. /\ register_pc[t] = "built" /\ services' = <<e>> \o services
        /\ register_pc' = [register_pc EXCEPT ![t] = "idle"] /\ drawn' = [drawn EXCEPT ![t] = 0]
        /\ next_id' = next_id /\ copy' = copy /\ gone' = gone
      BY <1>3 DEF Services!Link
  <2>2. /\ drawn[t] < next_id /\ drawn[t] \notin gone /\ drawn[t] > 0
        /\ \A i \in 1 .. L : services[i].id # drawn[t]
      BY <2>1 DEF RegistryInv, IdsAreFresh
  <2>3. e \in Services!Service /\ e.id = drawn[t] /\ e.name = name
    <3>1. drawn[t] \in 1 .. MaxIds
        BY <1>0, <2>2
    <3> QED
        BY <3>1 DEF Services!Service
  <2> HIDE DEF e
  <2>4. /\ services' \in Seq(Services!Service) /\ Len(services') = L + 1 /\ services'[1] = e
        /\ \A i \in 2 .. L + 1 : services'[i] = services[i - 1] /\ i - 1 \in 1 .. L
        /\ \A i \in 1 .. L : services'[i + 1] = services[i] /\ i + 1 \in 1 .. L + 1
    <3> DEFINE one == <<e>>
    <3>1. one \in Seq(Services!Service) /\ Len(one) = 1 /\ one[1] = e
        BY <2>3
    <3>2. services' = one \o services
        BY <2>1
    <3> HIDE DEF one
    <3>3. /\ one \o services \in Seq(Services!Service) /\ Len(one \o services) = Len(one) + L
          /\ \A i \in 1 .. Len(one) + L :
                (one \o services)[i] = IF i <= Len(one) THEN one[i] ELSE services[i - Len(one)]
        BY <1>0, <3>1, ConcatProperties
    <3>4. /\ services' \in Seq(Services!Service) /\ Len(services') = 1 + L
          /\ \A i \in 1 .. 1 + L : services'[i] = IF i <= 1 THEN e ELSE services[i - 1]
        BY <3>1, <3>2, <3>3
    <3> QED
        BY <1>0, <3>4
  <2>5. Services!TypeOK'
      BY <1>0, <2>1, <2>4 DEF RegistryInv, Services!TypeOK
  <2>6. \A i \in 1 .. L + 1 : i = 1 \/ i \in 2 .. L + 1
      BY <1>0
  <2>7. \A i \in 1 .. L + 1 : services'[i].id < next_id /\ services'[i].id \notin gone
    <3>1. \A i \in 1 .. L : services[i].id < next_id /\ services[i].id \notin gone
        BY DEF RegistryInv, IdsAreFresh
    <3> QED
        BY <2>2, <2>3, <2>4, <2>6, <3>1
  <2>8. ASSUME NEW i \in 1 .. L + 1, NEW j \in 1 .. L + 1, services'[i].id = services'[j].id PROVE i = j
    <3>1. \A k, m \in 1 .. L : services[k].id = services[m].id => k = m
        BY DEF RegistryInv, IdsAreFresh
    <3>2. CASE i \in 2 .. L + 1 /\ j \in 2 .. L + 1
      <4>1. /\ i - 1 \in 1 .. L /\ services'[i] = services[i - 1]
            /\ j - 1 \in 1 .. L /\ services'[j] = services[j - 1]
          BY <2>4, <3>2
      <4>2. services[i - 1].id = services[j - 1].id
          BY <2>8, <4>1
      <4>3. i - 1 = j - 1
          BY <3>1, <4>1, <4>2
      <4> QED
          BY <4>3
    <3>3. CASE i = 1 /\ j \in 2 .. L + 1
        BY <2>2, <2>3, <2>4, <2>8, <3>3
    <3>4. CASE j = 1 /\ i \in 2 .. L + 1
        BY <2>2, <2>3, <2>4, <2>8, <3>4
    <3> QED
        BY <2>6, <3>2, <3>3, <3>4
  <2>9. \A u \in Registrars : register_pc'[u] = "idle"
      BY <1>0, <1>00, <2>1
  <2>10. IdsAreFresh'
      BY <2>1, <2>4, <2>7, <2>8, <2>9 DEF RegistryInv, IdsAreFresh
  <2>11. CopyIsKnown'
    <3>1. \A i \in 1 .. L : \E j \in 1 .. L + 1 : services'[j] = services[i]
        BY <2>4
    <3> QED
        BY <2>1, <2>4, <3>1 DEF RegistryInv, CopyIsKnown
  <2> QED
      BY <2>5, <2>10, <2>11 DEF RegistryInv
<1> QED
    BY <1>1, <1>2, <1>3

(* The service under the id leaves the list, and it was the only one. *)
LEMMA DeregisterStep ==
    ASSUME RegistryInv, NEW id \in 1 .. MaxIds, Services!Deregister(id)
    PROVE  RegistryInv'
<1> DEFINE k == Services!FirstWith(id)
           L == Len(services)
<1>0. /\ next_id \in Nat /\ MaxIds \in Nat /\ services \in Seq(Services!Service) /\ L \in Nat
      /\ gone \in SUBSET (1 .. MaxIds)
    BY RegistryTypes DEF RegistryInv
<1>1. /\ k # 0 /\ services' = RemoveAt(services, k) /\ gone' = gone \cup {id}
      /\ UNCHANGED <<next_id, register_pc, drawn, copy>>
    BY SameRemoveAt DEF Services!Deregister
<1>2. k \in 1 .. L /\ services[k].id = id
    BY <1>1, FoundById
<1> HIDE DEF k
<1> DEFINE from(i) == IF i < k THEN i ELSE i + 1
<1>3. /\ services' \in Seq(Services!Service) /\ Len(services') = L - 1
      /\ \A i \in 1 .. L - 1 : services'[i] = services[from(i)]
  <2>1. /\ RemoveAt(services, k) \in Seq(Services!Service) /\ Len(RemoveAt(services, k)) = L - 1
        /\ \A i \in 1 .. L - 1 : RemoveAt(services, k)[i] = IF i < k THEN services[i] ELSE services[i + 1]
      BY <1>0, <1>2, RemovedAt
  <2> QED
      BY <1>1, <2>1
<1>4. \A i \in 1 .. L - 1 : from(i) \in 1 .. L /\ from(i) # k
    BY <1>0, <1>2
<1>5. \A i, j \in 1 .. L - 1 : from(i) = from(j) => i = j
    BY <1>0, <1>2
<1>6. \A i \in 1 .. L : i = k \/ \E j \in 1 .. L - 1 : from(j) = i
  <2> SUFFICES ASSUME NEW i \in 1 .. L, i # k PROVE \E j \in 1 .. L - 1 : from(j) = i
      OBVIOUS
  <2>1. CASE i < k
      BY <1>0, <1>2, <2>1
  <2>2. CASE i > k
    <3>1. i - 1 \in 1 .. L - 1 /\ from(i - 1) = i
        BY <1>0, <1>2, <2>2
    <3> QED
        BY <3>1
  <2> QED
      BY <1>0, <1>2, <2>1, <2>2
<1> HIDE DEF from
<1>7. /\ \A i, j \in 1 .. L : services[i].id = services[j].id => i = j
      /\ \A i \in 1 .. L : services[i].id < next_id /\ services[i].id \notin gone
      /\ \A g \in gone : g < next_id
    BY DEF RegistryInv, IdsAreFresh
<1>8. Services!TypeOK'
    BY <1>0, <1>1, <1>3 DEF RegistryInv, Services!TypeOK
<1>9. IdsAreFresh'
  <2>1. ASSUME NEW i \in 1 .. L - 1, NEW j \in 1 .. L - 1, services'[i].id = services'[j].id PROVE i = j
    <3>1. /\ from(i) \in 1 .. L /\ services'[i] = services[from(i)]
          /\ from(j) \in 1 .. L /\ services'[j] = services[from(j)]
        BY <1>3, <1>4
    <3>2. services[from(i)].id = services[from(j)].id
        BY <2>1, <3>1
    <3>3. from(i) = from(j)
        BY <1>7, <3>1, <3>2
    <3> QED
        BY <1>5, <3>3
  <2>2. \A i \in 1 .. L - 1 : services'[i].id < next_id /\ services'[i].id \notin gone'
      BY <1>1, <1>2, <1>3, <1>4, <1>7
  <2>3. \A g \in gone' : g < next_id
      BY <1>1, <1>2, <1>7
  <2>4. ASSUME NEW t \in Registrars, register_pc[t] = "built"
        PROVE  /\ drawn[t] < next_id /\ drawn[t] \notin gone'
               /\ \A i \in 1 .. L - 1 : services'[i].id # drawn[t]
    <3>1. /\ drawn[t] < next_id /\ drawn[t] \notin gone
          /\ \A i \in 1 .. L : services[i].id # drawn[t]
        BY <2>4 DEF RegistryInv, IdsAreFresh
    <3> QED
        BY <1>1, <1>2, <1>3, <1>4, <3>1
  <2> QED
      BY <1>1, <1>3, <2>1, <2>2, <2>3, <2>4 DEF RegistryInv, IdsAreFresh
<1>10. CopyIsKnown'
  <2> SUFFICES ASSUME copy # None
               PROVE  \/ copy.id \in gone'
                      \/ \E j \in 1 .. L - 1 : services'[j].id = copy.id /\ services'[j].name = copy.name
      BY <1>1, <1>3 DEF RegistryInv, CopyIsKnown
  <2>1. CASE copy.id \in gone
      BY <1>1, <2>1
  <2>2. ASSUME NEW i \in 1 .. L, services[i].id = copy.id, services[i].name = copy.name
        PROVE  \/ copy.id \in gone'
               \/ \E j \in 1 .. L - 1 : services'[j].id = copy.id /\ services'[j].name = copy.name
    <3>1. CASE i = k
        BY <1>1, <1>2, <2>2, <3>1
    <3>2. ASSUME NEW j \in 1 .. L - 1, from(j) = i PROVE services'[j].id = copy.id /\ services'[j].name = copy.name
        BY <1>3, <2>2, <3>2
    <3> QED
        BY <1>6, <3>1, <3>2
  <2> QED
      BY <2>1, <2>2 DEF RegistryInv, CopyIsKnown
<1> QED
    BY <1>8, <1>9, <1>10 DEF RegistryInv

LEMMA RegistryStep ==
    ASSUME OneAtATime, RegistryInv, [Services!Next]_services_vars
    PROVE  RegistryInv'
<1>0. /\ services \in Seq(Services!Service) /\ Len(services) \in Nat
      /\ \A i \in 1 .. Len(services) : services[i] \in Services!Service
      /\ register_pc \in [Registrars -> {"idle", "loaded", "built"}]
    BY RegistryTypes DEF RegistryInv
<1>1. ASSUME NEW id \in 1 .. MaxIds, Services!Heartbeat(id) PROVE RegistryInv'
  <2> DEFINE k == Services!FirstWith(id)
  <2>1. /\ k \in 1 .. Len(services) /\ services' = [services EXCEPT ![k].healthy = TRUE]
        /\ UNCHANGED <<next_id, register_pc, drawn, copy, gone>>
      BY <1>1, FoundById DEF Services!Heartbeat
  <2> HIDE DEF k
  <2> DEFINE e == [services[k] EXCEPT !.healthy = TRUE]
  <2>2. services[k] \in Services!Service
      BY <1>0, <2>1
  <2>3. e \in Services!Service /\ e.id = services[k].id /\ e.name = services[k].name
      BY <2>2 DEF Services!Service
  <2>4. services' = [services EXCEPT ![k] = e]
      BY <2>1
  <2> HIDE DEF e
  <2>5. /\ services' \in Seq(Services!Service) /\ Len(services') = Len(services)
        /\ \A i \in 1 .. Len(services) : services'[i] = IF i = k THEN e ELSE services[i]
    <3> DEFINE q == [services EXCEPT ![k] = e]
    <3>1. q \in Seq(Services!Service) /\ Len(q) = Len(services)
          /\ \A i \in 1 .. Len(services) : q[i] = IF i = k THEN e ELSE services[i]
        BY <1>0, <2>1, <2>3, ExceptSeq
    <3> QED
        BY <2>4, <3>1
  <2>6. \A i \in 1 .. Len(services) : services'[i].id = services[i].id /\ services'[i].name = services[i].name
      BY <2>3, <2>5
  <2>7. Services!TypeOK'
      BY <2>1, <2>5 DEF RegistryInv, Services!TypeOK
  <2>8. IdsAreFresh'
      BY <2>1, <2>5, <2>6 DEF RegistryInv, IdsAreFresh
  <2>9. CopyIsKnown'
      BY <2>1, <2>5, <2>6 DEF RegistryInv, CopyIsKnown
  <2> QED
      BY <2>7, <2>8, <2>9 DEF RegistryInv
<1>2. ASSUME NEW name \in Names, Services!Discover(name) PROVE RegistryInv'
  <2> DEFINE k == Services!FirstNamed(name)
  <2>1. /\ copy' = IF k = 0 THEN None ELSE services[k]
        /\ next_id' = next_id /\ services' = services /\ register_pc' = register_pc /\ drawn' = drawn
        /\ gone' = gone
      BY <1>2 DEF Services!Discover
  <2>2. k = 0 \/ k \in 1 .. Len(services)
      BY FoundByName
  <2> HIDE DEF k
  <2>3. copy' = None \/ \E i \in 1 .. Len(services) : copy' = services[i]
      BY <2>1, <2>2
  <2>4. Services!TypeOK'
      BY <1>0, <2>1, <2>3 DEF RegistryInv, Services!TypeOK
  <2>5. IdsAreFresh'
      BY <2>1 DEF RegistryInv, IdsAreFresh
  <2>6. CopyIsKnown'
      BY <2>1, <2>3 DEF RegistryInv, IdsAreFresh, CopyIsKnown
  <2> QED
      BY <2>4, <2>5, <2>6 DEF RegistryInv
<1>3. CASE Services!Destroy
  <2>1. /\ next_id' = 1 /\ services' = <<>> /\ copy' = None /\ gone' = {}
        /\ register_pc' = register_pc /\ drawn' = drawn /\ \A t \in Registrars : register_pc[t] = "idle"
      BY <1>3 DEF Services!Destroy
  <2>2. Services!TypeOK'
      BY <2>1, RegistryAssumption DEF RegistryInv, Services!TypeOK
  <2>3. IdsAreFresh'
      BY <2>1 DEF IdsAreFresh
  <2>4. CopyIsKnown'
      BY <2>1 DEF CopyIsKnown
  <2> QED
      BY <2>2, <2>3, <2>4 DEF RegistryInv
<1>4. CASE UNCHANGED services_vars
  <2>1. /\ next_id' = next_id /\ services' = services /\ register_pc' = register_pc
        /\ drawn' = drawn /\ copy' = copy /\ gone' = gone
      BY <1>4 DEF services_vars
  <2> QED
      BY <2>1 DEF RegistryInv, Services!TypeOK, IdsAreFresh, CopyIsKnown
<1> QED
    BY <1>1, <1>2, <1>3, <1>4, RegisterStep, DeregisterStep DEF Services!Next

LEMMA CopyIsRight == RegistryInv => CopyMeansItsService
<1> SUFFICES ASSUME RegistryInv, copy # None
             PROVE  IF Services!FirstWith(copy.id) = 0 THEN copy.id \in gone
                    ELSE services[Services!FirstWith(copy.id)].name = copy.name
    BY DEF CopyMeansItsService, Services!CopyMeansItsService
<1>1. \/ copy.id \in gone
      \/ \E i \in 1 .. Len(services) : services[i].id = copy.id /\ services[i].name = copy.name
    BY DEF RegistryInv, CopyIsKnown
<1>2. /\ \A i, j \in 1 .. Len(services) : services[i].id = services[j].id => i = j
      /\ \A i \in 1 .. Len(services) : services[i].id \notin gone
    BY DEF RegistryInv, IdsAreFresh
<1>3. \/ /\ Services!FirstWith(copy.id) = 0
         /\ \A i \in 1 .. Len(services) : services[i].id # copy.id
      \/ /\ Services!FirstWith(copy.id) \in 1 .. Len(services)
         /\ services[Services!FirstWith(copy.id)].id = copy.id
    BY FoundById
<1>4. 0 \notin 1 .. Len(services)
    OBVIOUS
<1> QED
    BY <1>1, <1>2, <1>3, <1>4

(* What only keeps the types, however many threads register at once: an id  *)
(* that is drawn is no placeholder.                                         *)
RegistryTyped == Services!TypeOK /\ \A t \in Registrars : register_pc[t] # "idle" => drawn[t] > 0

LEMMA RegistryTypedInit == Services!Init => RegistryTyped
<1>1. RegistryInv => RegistryTyped
    BY DEF RegistryInv, IdsAreFresh, RegistryTyped
<1> QED
    BY <1>1, RegistryInit

LEMMA RegistryTypedStep == RegistryTyped /\ [Services!Next]_services_vars => RegistryTyped'
<1> SUFFICES ASSUME RegistryTyped, [Services!Next]_services_vars PROVE RegistryTyped'
    OBVIOUS
<1>0. /\ next_id \in Nat /\ next_id \in 1 .. MaxIds + 1 /\ MaxIds \in Nat
      /\ services \in Seq(Services!Service) /\ Len(services) \in Nat
      /\ \A i \in 1 .. Len(services) : services[i] \in Services!Service
      /\ register_pc \in [Registrars -> {"idle", "loaded", "built"}]
      /\ drawn \in [Registrars -> 0 .. MaxIds] /\ \A t \in Registrars : drawn[t] \in Nat
      /\ copy \in Services!Service \cup {None} /\ gone \in SUBSET (1 .. MaxIds)
    BY RegistryTypes DEF RegistryTyped
<1>1. ASSUME NEW t \in Registrars, Services!LoadId(t) PROVE RegistryTyped'
    BY <1>0, <1>1 DEF Services!LoadId, RegistryTyped, Services!TypeOK
<1>2. ASSUME NEW t \in Registrars, Services!StoreId(t) PROVE RegistryTyped'
  <2>1. drawn[t] + 1 \in 1 .. MaxIds + 1
      BY <1>0
  <2> QED
      BY <1>0, <1>2, <2>1 DEF Services!StoreId, RegistryTyped, Services!TypeOK
<1>3. ASSUME NEW t \in Registrars, NEW name \in Names, Services!Link(t, name) PROVE RegistryTyped'
  <2> DEFINE e == [id |-> drawn[t], name |-> name, healthy |-> TRUE]
  <2>1. drawn[t] \in 1 .. MaxIds
      BY <1>0, <1>3 DEF Services!Link, RegistryTyped
  <2>2. e \in Services!Service
      BY <2>1 DEF Services!Service
  <2>3. services' = << e >> \o services
      BY <1>3 DEF Services!Link
  <2> HIDE DEF e
  <2>4. << e >> \o services \in Seq(Services!Service)
      BY <1>0, <2>2, Pushed
  <2>5. /\ register_pc' = [register_pc EXCEPT ![t] = "idle"] /\ drawn' = [drawn EXCEPT ![t] = 0]
        /\ next_id' = next_id /\ copy' = copy /\ gone' = gone
      BY <1>3 DEF Services!Link
  <2> QED
      BY <1>0, <2>3, <2>4, <2>5 DEF RegistryTyped, Services!TypeOK
<1>4. ASSUME NEW id \in 1 .. MaxIds, Services!Deregister(id) PROVE RegistryTyped'
  <2>1. Services!FirstWith(id) \in 1 .. Len(services)
      BY <1>4, FoundById DEF Services!Deregister
  <2>2. RemoveAt(services, Services!FirstWith(id)) \in Seq(Services!Service)
      BY <1>0, <2>1, RemovedAt
  <2>3. services' \in Seq(Services!Service)
      BY <1>4, <2>2, SameRemoveAt DEF Services!Deregister
  <2> QED
      BY <1>0, <1>4, <2>3 DEF Services!Deregister, RegistryTyped, Services!TypeOK
<1>5. ASSUME NEW id \in 1 .. MaxIds, Services!Heartbeat(id) PROVE RegistryTyped'
  <2> DEFINE k == Services!FirstWith(id)
             e == [services[k] EXCEPT !.healthy = TRUE]
  <2>1. k \in 1 .. Len(services) /\ services' = [services EXCEPT ![k].healthy = TRUE]
      BY <1>5, FoundById DEF Services!Heartbeat
  <2> HIDE DEF k
  <2>2. services[k] \in Services!Service
      BY <1>0, <2>1
  <2>3. e \in Services!Service /\ services' = [services EXCEPT ![k] = e]
      BY <2>1, <2>2 DEF Services!Service
  <2> HIDE DEF e
  <2>4. [services EXCEPT ![k] = e] \in Seq(Services!Service)
      BY <1>0, <2>1, <2>3, ExceptSeq
  <2> QED
      BY <1>0, <1>5, <2>3, <2>4 DEF Services!Heartbeat, RegistryTyped, Services!TypeOK
<1>6. ASSUME NEW name \in Names, Services!Discover(name) PROVE RegistryTyped'
  <2>1. copy' \in Services!Service \cup {None}
      BY <1>0, <1>6, FoundByName DEF Services!Discover
  <2> QED
      BY <1>6, <2>1 DEF Services!Discover, RegistryTyped, Services!TypeOK
<1>7. CASE Services!Destroy
    BY <1>0, <1>7 DEF Services!Destroy, RegistryTyped, Services!TypeOK
<1>8. CASE UNCHANGED services_vars
    BY <1>8 DEF services_vars, RegistryTyped, Services!TypeOK
<1> QED
    BY <1>1, <1>2, <1>3, <1>4, <1>5, <1>6, <1>7, <1>8 DEF Services!Next

-----------------------------------------------------------------------------
(* The metrics collector. *)

Metric == [name : MetricNames, value : 0 .. MaxValue]
Printed == [offset : Nat, text : Collector!Text, overrun : BOOLEAN]

(* What is exported is what the loop of metrics_export makes of the list. *)
Exported(ms) == Collector!FoldLeft(Collector!PrintMetric, Collector!Nothing, ms)

MetricsInv ==
    /\ metrics \in Seq(Metric)
    /\ exported = None \/ exported = Exported(metrics)

LEMMA LengthIsANumber == \A m \in Metric : Collector!Length(m) \in Nat \ {0}
<1> SUFFICES ASSUME NEW m \in Metric PROVE Collector!Length(m) \in Nat \ {0}
    OBVIOUS
<1>1. m.name.length \in Nat /\ m.value \in Nat
    BY MetricsAssumption DEF Metric, MetricNames
<1> DEFINE D == {d \in 1 .. 9 : m.value \div Unit >= 10 ^ d}
<1>2. IsFiniteSet(1 .. 9)
  <2>1. \A n \in Int : IsFiniteSet(1 .. n)
      BY FS_Interval
  <2>2. 9 \in Int
      OBVIOUS
  <2> QED
      BY <2>1, <2>2, Zenon
<1>3. IsFiniteSet(D)
    BY <1>2, FS_Subset
<1>4. Cardinality(D) \in Nat
    BY <1>3, FS_CardinalityType
<1>5. Collector!Digits(m.value \div Unit) = 1 + Cardinality(D)
    BY Zenon DEF Collector!Digits, Collector!Cardinality, Cardinality
<1> HIDE DEF D
<1> QED
    BY <1>1, <1>4, <1>5, MetricsAssumption DEF Collector!Length

(* metrics_export, and the sum of the lengths, metric by metric. *)
LEMMA SizeSteps ==
    ASSUME NEW ms \in Seq(Metric)
    PROVE  \E z \in [0 .. Len(ms) -> Nat] :
              /\ z[0] = 0
              /\ \A n \in 1 .. Len(ms) : z[n] = z[n - 1] + Collector!Length(ms[n])
              /\ Collector!Size(ms) = z[Len(ms)]
<1> DEFINE G == [n \in 1 .. Len(ms) |-> [v \in Nat |-> v + Collector!Length(ms[n])]]
<1>1. Len(ms) \in Nat /\ DOMAIN ms = 1 .. Len(ms) /\ \A n \in 1 .. Len(ms) : Collector!Length(ms[n]) \in Nat
    BY LenProperties, ElementOfSeq, LengthIsANumber
<1>2. G \in [1 .. Len(ms) -> [Nat -> Nat]] /\ \A n \in 1 .. Len(ms), v \in Nat : G[n][v] = v + Collector!Length(ms[n])
    BY <1>1
<1> HIDE DEF G
<1>3. PICK g \in [SUBSET (1 .. Len(ms)) -> Nat] : Folds(g, 0, G, Len(ms))
    BY <1>1, <1>2, FoldExists
<1>4. g = [t \in SUBSET (DOMAIN ms) |->
             IF t = {} THEN 0 ELSE g[t \ {Max(t)}] + Collector!Length(ms[Max(t)])]
  <2> SUFFICES ASSUME NEW t \in SUBSET (1 .. Len(ms)), t # {}
               PROVE  g[t] = g[t \ {Max(t)}] + Collector!Length(ms[Max(t)])
      BY <1>1, <1>3 DEF Folds
  <2>1. Max(t) \in 1 .. Len(ms) /\ g[t \ {Max(t)}] \in Nat
      BY <1>1, GreatestIsMax
  <2> QED
      BY <1>2, <1>3, <2>1 DEF Folds
<1>5. PICK h : /\ h = [t \in SUBSET (DOMAIN ms) |->
                         IF t = {} THEN 0 ELSE h[t \ {Max(t)}] + Collector!Length(ms[Max(t)])]
               /\ Collector!Size(ms) = h[DOMAIN ms]
    BY <1>4, Zenon DEF Collector!Size, Collector!FoldLeft, Collector!MapThenFoldSet, Collector!Max, Max
<1> DEFINE z == [n \in 0 .. Len(ms) |-> h[1 .. n]]
<1>6. z[0] = 0
    BY <1>1, <1>5
<1>7. \A n \in 1 .. Len(ms) : z[n] = z[n - 1] + Collector!Length(ms[n])
  <2> SUFFICES ASSUME NEW n \in 1 .. Len(ms) PROVE h[1 .. n] = h[1 .. n - 1] + Collector!Length(ms[n])
      BY <1>1
  <2>1. 1 .. n \in SUBSET (DOMAIN ms) /\ 1 .. n # {} /\ Max(1 .. n) = n /\ (1 .. n) \ {n} = 1 .. n - 1
      BY <1>1, MaxOfInterval
  <2> QED
      BY <1>5, <2>1
<1>8. Collector!Size(ms) = z[Len(ms)]
    BY <1>1, <1>5
<1>9. z \in [0 .. Len(ms) -> Nat]
  <2>1. z = [n \in 0 .. Len(ms) |-> z[n]]
      OBVIOUS
  <2> HIDE DEF z
  <2>2. \A n \in 1 .. Len(ms) : z[n - 1] \in Nat => z[n] \in Nat
      BY <1>1, <1>7
  <2>3. z[0] \in Nat
      BY <1>6
  <2> QED
      BY <1>1, <2>1, <2>2, <2>3, StepsTyped, Zenon
<1> HIDE DEF z
<1> QED
    BY <1>6, <1>7, <1>8, <1>9

LEMMA PrintType == \A out \in Printed, m \in Metric : Collector!PrintMetric(out, m) \in Printed
<1> SUFFICES ASSUME NEW out \in Printed, NEW m \in Metric PROVE Collector!PrintMetric(out, m) \in Printed
    OBVIOUS
<1>1. Collector!Length(m) \in Nat
    BY LengthIsANumber
<1>2. {"whole", "cut"} \subseteq Collector!Text
    BY DEF Collector!Text
<1> QED
    BY <1>1, <1>2 DEF Printed, Collector!PrintMetric

LEMMA ExportSteps ==
    ASSUME NEW ms \in Seq(Metric)
    PROVE  \E f \in [0 .. Len(ms) -> Printed] :
              /\ f[0] = Collector!Nothing
              /\ \A n \in 1 .. Len(ms) : f[n] = Collector!PrintMetric(f[n - 1], ms[n])
              /\ Exported(ms) = f[Len(ms)]
<1> DEFINE G == [n \in 1 .. Len(ms) |-> [v \in Printed |-> Collector!PrintMetric(v, ms[n])]]
<1>1. Len(ms) \in Nat /\ DOMAIN ms = 1 .. Len(ms) /\ \A n \in 1 .. Len(ms) : ms[n] \in Metric
    BY LenProperties, ElementOfSeq
<1>2. /\ G \in [1 .. Len(ms) -> [Printed -> Printed]]
      /\ \A n \in 1 .. Len(ms), v \in Printed : G[n][v] = Collector!PrintMetric(v, ms[n])
    BY <1>1, PrintType
<1> HIDE DEF G
<1>0. Collector!Nothing \in Printed
    BY DEF Collector!Nothing, Printed, Collector!Text
<1>3. PICK g \in [SUBSET (1 .. Len(ms)) -> Printed] : Folds(g, Collector!Nothing, G, Len(ms))
    BY <1>0, <1>1, <1>2, FoldExists
<1>4. g = [t \in SUBSET (DOMAIN ms) |->
             IF t = {} THEN Collector!Nothing ELSE Collector!PrintMetric(g[t \ {Max(t)}], ms[Max(t)])]
  <2> SUFFICES ASSUME NEW t \in SUBSET (1 .. Len(ms)), t # {}
               PROVE  g[t] = Collector!PrintMetric(g[t \ {Max(t)}], ms[Max(t)])
      BY <1>1, <1>3 DEF Folds
  <2>1. Max(t) \in 1 .. Len(ms) /\ g[t \ {Max(t)}] \in Printed
      BY <1>1, GreatestIsMax
  <2> QED
      BY <1>2, <1>3, <2>1 DEF Folds
<1>5. PICK h : /\ h = [t \in SUBSET (DOMAIN ms) |->
                         IF t = {} THEN Collector!Nothing
                         ELSE Collector!PrintMetric(h[t \ {Max(t)}], ms[Max(t)])]
               /\ Exported(ms) = h[DOMAIN ms]
    BY <1>4, Zenon DEF Exported, Collector!FoldLeft, Collector!MapThenFoldSet, Collector!Max, Max
<1> DEFINE f == [n \in 0 .. Len(ms) |-> h[1 .. n]]
<1>6. f[0] = Collector!Nothing
    BY <1>1, <1>5
<1>7. \A n \in 1 .. Len(ms) : f[n] = Collector!PrintMetric(f[n - 1], ms[n])
  <2> SUFFICES ASSUME NEW n \in 1 .. Len(ms)
               PROVE  h[1 .. n] = Collector!PrintMetric(h[1 .. n - 1], ms[n])
      BY <1>1
  <2>1. 1 .. n \in SUBSET (DOMAIN ms) /\ 1 .. n # {} /\ Max(1 .. n) = n /\ (1 .. n) \ {n} = 1 .. n - 1
      BY <1>1, MaxOfInterval
  <2> QED
      BY <1>5, <2>1
<1>8. Exported(ms) = f[Len(ms)]
    BY <1>1, <1>5
<1>9. f \in [0 .. Len(ms) -> Printed]
  <2>1. f = [n \in 0 .. Len(ms) |-> f[n]]
      OBVIOUS
  <2> HIDE DEF f
  <2>2. \A n \in 1 .. Len(ms) : f[n - 1] \in Printed => f[n] \in Printed
      BY <1>1, <1>7, PrintType
  <2> QED
      BY <1>0, <1>1, <1>6, <2>1, <2>2, StepsTyped
<1> HIDE DEF f
<1> QED
    BY <1>6, <1>7, <1>8, <1>9

(* The sizes of a list and of what is in front of its last metric. *)
LEMMA FrontSize ==
    ASSUME NEW ms \in Seq(Metric), ms # <<>>, NEW z \in [0 .. Len(ms) -> Nat], z[0] = 0,
           \A n \in 1 .. Len(ms) : z[n] = z[n - 1] + Collector!Length(ms[n])
    PROVE  Collector!Size(Collector!Front(ms)) = z[Len(ms) - 1]
<1> DEFINE N == Len(ms) - 1
           fr == SubSeq(ms, 1, N)
<1>1. Len(ms) \in Nat /\ N \in Nat /\ \A n \in 1 .. Len(ms) : ms[n] \in Metric
    BY LenProperties, ElementOfSeq, EmptySeq
<1>2. Collector!Front(ms) = fr
    BY DEF Collector!Front
<1>3. fr \in Seq(Metric) /\ Len(fr) = N /\ \A n \in 1 .. N : fr[n] = ms[n]
  <2>1. \A n \in 1 .. N : ms[n] \in Metric
      BY <1>1
  <2>2. /\ SubSeq(ms, 1, N) \in Seq(Metric)
        /\ Len(SubSeq(ms, 1, N)) = IF 1 <= N THEN N - 1 + 1 ELSE 0
        /\ \A i \in 1 .. N - 1 + 1 : SubSeq(ms, 1, N)[i] = ms[1 + i - 1]
      BY <1>1, <2>1, SubSeqProperties
  <2>3. Len(fr) = N
      BY <1>1, <2>2
  <2>4. \A n \in 1 .. N : n \in 1 .. N - 1 + 1 /\ 1 + n - 1 = n
      BY <1>1
  <2> QED
      BY <2>2, <2>3, <2>4, Zenon
<1> HIDE DEF fr
<1>4. PICK y \in [0 .. N -> Nat] : /\ y[0] = 0
                                   /\ \A n \in 1 .. N : y[n] = y[n - 1] + Collector!Length(fr[n])
                                   /\ Collector!Size(fr) = y[N]
    BY <1>3, SizeSteps
<1> DEFINE S == {n \in 0 .. N : y[n] = z[n]}
<1>5. 0 \in S /\ \A n \in 1 .. N : n - 1 \in S => n \in S
    BY <1>1, <1>3, <1>4
<1> HIDE DEF S
<1>6. \A n \in 0 .. N : n \in S
    BY <1>1, <1>5, UpTo, Zenon
<1>7. N \in S
    BY <1>1, <1>6
<1> QED
    BY <1>2, <1>4, <1>7 DEF S

(* What the export of a list is. *)
LEMMA ExportOf ==
    ASSUME NEW ms \in Seq(Metric)
    PROVE  /\ Exported(ms) \in Printed
           /\ Exported(ms).text = "uninitialized" <=> ms = <<>>
           /\ Exported(ms).text = "whole" <=> ms # <<>> /\ Collector!Size(ms) < BufferSize
           /\ Exported(ms).overrun <=> ms # <<>> /\ Collector!Size(Collector!Front(ms)) > BufferSize
<1>1. Len(ms) \in Nat /\ \A n \in 1 .. Len(ms) : Collector!Length(ms[n]) \in Nat /\ ms[n] \in Metric
    BY LenProperties, ElementOfSeq, LengthIsANumber
<1>2. PICK z \in [0 .. Len(ms) -> Nat] :
              /\ z[0] = 0
              /\ \A n \in 1 .. Len(ms) : z[n] = z[n - 1] + Collector!Length(ms[n])
              /\ Collector!Size(ms) = z[Len(ms)]
    BY SizeSteps
<1>3. PICK f \in [0 .. Len(ms) -> Printed] :
              /\ f[0] = Collector!Nothing
              /\ \A n \in 1 .. Len(ms) : f[n] = Collector!PrintMetric(f[n - 1], ms[n])
              /\ Exported(ms) = f[Len(ms)]
    BY ExportSteps
<1>4. BufferSize \in Nat
    BY MetricsAssumption
(* After n metrics. *)
<1> DEFINE As(n) == /\ f[n].offset = z[n]
                    /\ n = 0 => f[n].text = "uninitialized" /\ ~ f[n].overrun
                    /\ n > 0 => /\ f[n].text = IF z[n] < BufferSize THEN "whole" ELSE "cut"
                                /\ f[n].overrun <=> z[n - 1] > BufferSize
           S == {n \in 0 .. Len(ms) : As(n)}
<1>5. 0 \in S
    BY <1>1, <1>2, <1>3 DEF Collector!Nothing
<1>6. ASSUME NEW n \in 1 .. Len(ms), n - 1 \in S PROVE n \in S
  <2> DEFINE l == Collector!Length(ms[n])
  <2>1. l \in Nat /\ z[n] = z[n - 1] + l /\ z[n - 1] \in Nat
      BY <1>1, <1>2
  <2>2. /\ f[n].offset = f[n - 1].offset + l
        /\ f[n].text = IF f[n - 1].text # "cut" /\ l < BufferSize - f[n - 1].offset THEN "whole" ELSE "cut"
        /\ f[n].overrun <=> (f[n - 1].overrun \/ f[n - 1].offset > BufferSize)
    <3>1. f[n] = Collector!PrintMetric(f[n - 1], ms[n])
        BY <1>3
    <3>2. f[n].overrun = (f[n - 1].overrun \/ f[n - 1].offset > BufferSize)
        BY <3>1 DEF Collector!PrintMetric
    <3>3. f[n].overrun <=> (f[n - 1].overrun \/ f[n - 1].offset > BufferSize)
        BY <3>2, Zenon
    <3> QED
        BY <3>1, <3>3 DEF Collector!PrintMetric
  <2> HIDE DEF l
  <2>3. As(n - 1)
      BY <1>6
  <2>4. CASE n = 1
      BY <1>4, <2>1, <2>2, <2>3, <2>4
  <2>5. CASE n > 1
    <3>0. n - 1 \in 1 .. Len(ms) /\ n - 1 - 1 \in 0 .. Len(ms)
        BY <1>1, <2>5
    <3>1. z[n - 1] = z[n - 1 - 1] + Collector!Length(ms[n - 1]) /\ z[n - 1 - 1] \in Nat
          /\ Collector!Length(ms[n - 1]) \in Nat
        BY <1>1, <1>2, <3>0
    <3>2. /\ f[n - 1].offset = z[n - 1]
          /\ f[n - 1].text = IF z[n - 1] < BufferSize THEN "whole" ELSE "cut"
          /\ f[n - 1].overrun <=> z[n - 1 - 1] > BufferSize
        BY <2>3, <2>5
    <3>3. f[n].offset = z[n]
        BY <2>1, <2>2, <3>2
    <3>4. f[n].text = IF z[n] < BufferSize THEN "whole" ELSE "cut"
        BY <1>4, <2>1, <2>2, <3>2
    <3>5. f[n].overrun <=> z[n - 1] > BufferSize
        BY <1>4, <2>1, <2>2, <3>1, <3>2
    <3> QED
        BY <2>5, <3>3, <3>4, <3>5
  <2> QED
      BY <1>1, <2>4, <2>5
<1> HIDE DEF S
<1>a. \A n \in 0 .. Len(ms) : n \in S
  <2>1. \A n \in 1 .. Len(ms) : n - 1 \in S => n \in S
      BY <1>6
  <2> QED
      BY <1>1, <1>5, <2>1, UpTo, Zenon
<1>7. Len(ms) \in S
    BY <1>1, <1>a
<1>8. As(Len(ms)) /\ (Len(ms) = 0 <=> ms = <<>>) /\ Exported(ms) \in Printed
    BY <1>1, <1>3, <1>7, EmptySeq DEF S
<1>9. CASE ms = <<>>
    BY <1>3, <1>8, <1>9
<1>10. CASE ms # <<>>
  <2>1. Collector!Size(Collector!Front(ms)) = z[Len(ms) - 1]
      BY <1>2, <1>10, FrontSize
  <2> QED
      BY <1>1, <1>2, <1>3, <1>8, <1>10, <2>1
<1> QED
    BY <1>9, <1>10

(* What a search of the list finds: the metric of that name. *)
LEMMA MetricFound ==
    ASSUME MetricsInv, NEW name \in MetricNames
    PROVE  /\ Collector!Found(name) \in Seq(Metric)
           /\ Collector!PlaceOf(name) \in 1 .. Len(Collector!Found(name))
           /\ Collector!Old(name) \in 0 .. MaxValue
<1> DEFINE ms == Collector!Found(name)
           I == {i \in 1 .. Len(ms) : ms[i].name = name}
           e == [name |-> name, value |-> 0]
<1>0. metrics \in Seq(Metric) /\ Len(metrics) \in Nat /\ e \in Metric /\ e.name = name
    BY MetricsAssumption, LenProperties DEF MetricsInv, Metric
<1>1. ms \in Seq(Metric) /\ Len(ms) \in Nat /\ \E i \in 1 .. Len(ms) : ms[i].name = name
  <2>1. CASE \E i \in 1 .. Len(metrics) : metrics[i].name = name
    <3>1. ms = metrics
        BY <2>1 DEF Collector!Found
    <3> QED
        BY <1>0, <2>1, <3>1
  <2>2. CASE ~ \E i \in 1 .. Len(metrics) : metrics[i].name = name
    <3>1. ms = << e >> \o metrics
        BY <2>2 DEF Collector!Found
    <3>2. << e >> \in Seq(Metric) /\ Len(<< e >>) = 1 /\ << e >>[1] = e
        BY <1>0
    <3> HIDE DEF e
    <3>3. /\ << e >> \o metrics \in Seq(Metric) /\ Len(<< e >> \o metrics) = 1 + Len(metrics)
          /\ (<< e >> \o metrics)[1] = e
        BY <1>0, <3>2, ConcatProperties
    <3> HIDE DEF ms
    <3>4. ms \in Seq(Metric) /\ Len(ms) = 1 + Len(metrics) /\ ms[1] = e
        BY <3>1, <3>3
    <3>5. 1 \in 1 .. Len(ms)
        BY <1>0, <3>4
    <3> QED
        BY <1>0, <3>4, <3>5
  <2> QED
      BY <2>1, <2>2
<1>2. Collector!PlaceOf(name) = IF I # {} THEN Collector!Min(I) ELSE 0
    BY DEF Collector!PlaceOf, Collector!SelectInSeq
<1> HIDE DEF ms
<1>3. I \in SUBSET Nat /\ I # {}
    BY <1>1
<1>4. Collector!Min(I) \in I
  <2>1. \E m \in I : \A k \in I : m <= k
      BY <1>3, LeastNumber
  <2> QED
      BY <2>1 DEF Collector!Min
<1>5. Collector!PlaceOf(name) \in 1 .. Len(ms)
    BY <1>2, <1>3, <1>4
<1>6. ms[Collector!PlaceOf(name)] \in Metric
    BY <1>1, <1>5, ElementOfSeq
<1>7. Collector!Old(name) = ms[Collector!PlaceOf(name)].value
    BY DEF Collector!Old, ms
<1> QED
    BY <1>1, <1>5, <1>6, <1>7 DEF ms, Metric

LEMMA MetricsInit == Collector!Init => MetricsInv
BY DEF Collector!Init, MetricsInv

LEMMA MetricUpdateStep ==
    ASSUME MetricsInv, NEW name \in MetricNames, NEW new \in Nat, Collector!Update(name, new)
    PROVE  MetricsInv'
<1> DEFINE ms == Collector!Found(name)
           k == Collector!PlaceOf(name)
           e == [ms[k] EXCEPT !.value = new]
<1>1. ms \in Seq(Metric) /\ k \in 1 .. Len(ms)
    BY MetricFound
<1>2. new \in 0 .. MaxValue /\ metrics' = [ms EXCEPT ![k].value = new] /\ exported' = None
    BY MetricsAssumption DEF Collector!Update
<1> HIDE DEF ms, k
<1>3. ms[k] \in Metric
    BY <1>1, ElementOfSeq
<1>4. e \in Metric
    BY <1>2, <1>3 DEF Metric
<1>5. metrics' = [ms EXCEPT ![k] = e]
    BY <1>2
<1> HIDE DEF e
<1>6. [ms EXCEPT ![k] = e] \in Seq(Metric)
    BY <1>1, <1>4, ExceptSeq
<1> QED
    BY <1>2, <1>5, <1>6 DEF MetricsInv

LEMMA MetricsStep == MetricsInv /\ [Collector!Next]_metrics_vars => MetricsInv'
<1> SUFFICES ASSUME MetricsInv, [Collector!Next]_metrics_vars PROVE MetricsInv'
    OBVIOUS
<1>1. ASSUME NEW name \in MetricNames, Collector!CounterInc(name) PROVE MetricsInv'
  <2>1. Collector!Old(name) + Unit \in Nat
      BY MetricFound, MetricsAssumption
  <2> QED
      BY <1>1, <2>1, MetricUpdateStep DEF Collector!CounterInc
<1>2. ASSUME NEW name \in MetricNames, NEW v \in Gauges, Collector!GaugeSet(name, v) PROVE MetricsInv'
    BY <1>2, MetricUpdateStep, MetricsAssumption DEF Collector!GaugeSet
<1>3. ASSUME NEW name \in MetricNames, NEW v \in Gauges, Collector!HistogramObserve(name, v)
      PROVE  MetricsInv'
  <2>1. Collector!Old(name) \in Nat /\ v \in Nat
      BY MetricFound, MetricsAssumption
  <2>2. (Collector!Old(name) + v) \div 2 \in Nat
      BY <2>1
  <2> QED
      BY <1>3, <2>2, MetricUpdateStep DEF Collector!HistogramObserve
<1>4. CASE Collector!Export
    BY <1>4 DEF Collector!Export, MetricsInv, Exported
<1>5. CASE Collector!Destroy
    BY <1>5 DEF Collector!Destroy, MetricsInv
<1>6. CASE UNCHANGED metrics_vars
    BY <1>6 DEF metrics_vars, MetricsInv
<1> QED
    BY <1>1, <1>2, <1>3, <1>4, <1>5, <1>6 DEF Collector!Next

LEMMA MetricsRight == MetricsInv => Collector!TypeOK /\ ExportedOrOverrun
<1> SUFFICES ASSUME MetricsInv PROVE Collector!TypeOK /\ ExportedOrOverrun
    OBVIOUS
<1>1. metrics \in Seq(Metric) /\ (exported = None \/ exported = Exported(metrics))
    BY DEF MetricsInv
<1>2. Collector!TypeOK
    BY <1>1, ExportOf DEF Collector!TypeOK, Metric, Printed
<1>3. ExportedOrOverrun
    BY <1>1, ExportOf DEF ExportedOrOverrun, Collector!ExportedOrOverrun
<1> QED
    BY <1>2, <1>3

-----------------------------------------------------------------------------
(* A step of the composition is a step of each object, or leaves it alone. *)
LEMMA DistributedInit ==
    MCInit => Limiter!Init /\ Services!Init /\ Retried!Init /\ Tokens!Init /\ Collector!Init
BY DEF MCInit

LEMMA DistributedStep ==
    ASSUME [MCNext]_MCvars
    PROVE  /\ [Limiter!Next]_limiter_vars
           /\ [Services!Next]_services_vars
           /\ [Retried!Next]_retry_vars
           /\ [Tokens!Next]_token_vars
           /\ [Collector!Next]_metrics_vars
<1>1. CASE MCNext
    BY <1>1, Zenon DEF MCNext
<1>2. CASE UNCHANGED MCvars
    BY <1>2 DEF MCvars
<1> QED
    BY <1>1, <1>2

(* retry_with_policy calls the operation up to max_retries + 1 times, until *)
(* it succeeds, sleeps between two calls and only there, and returns the    *)
(* last call's outcome, for any policy.                                     *)
THEOREM RetriesAsPromised == MCSpec => []RetryContract
<1>1. MCInit => RetryInv
    BY DistributedInit, RetryInit
<1>2. RetryInv /\ [MCNext]_MCvars => RetryInv'
    BY DistributedStep, RetryStep
<1>3. RetryInv => RetryContract
    BY DEF RetryInv
<1> QED
    BY <1>1, <1>2, <1>3, PTL DEF MCSpec

(* auth_token_validate accepts a token, written and read back, for its time *)
(* to live, for any ids, times to live and width of the unsigned numbers.   *)
THEOREM TokensLiveForTtl == MCSpec => []ValidForTtl
<1>1. MCInit => TokenInv
    BY DistributedInit, TokenInit
<1>2. TokenInv /\ [MCNext]_MCvars => TokenInv'
    BY DistributedStep, TokenStep
<1> QED
    BY <1>1, <1>2, TokenValid, PTL DEF MCSpec

(* rate_limiter_allow grants less than two windowfuls in any closed         *)
(* interval of window_ms, and as much again for each time the clock was set *)
(* back, for any limit and window.                                          *)
THEOREM LessThanTwoWindowfuls == MCSpec => []AtMostTwoWindowfuls
<1>1. MCInit => LimiterInv
    BY DistributedInit, LimiterInit
<1>2. LimiterInv /\ [MCNext]_MCvars => LimiterInv'
    BY DistributedStep, LimiterStep
<1> QED
    BY <1>1, <1>2, LimiterBound, PTL DEF MCSpec

(* rate_limiter_allow does not refuse a client that kept below the limit,   *)
(* whatever the clock does.                                                 *)
THEOREM ClientsBelowTheLimitPass == MCSpec => []NoneRefusedBelowLimit
<1>1. MCInit => LimiterInv
    BY DistributedInit, LimiterInit
<1>2. LimiterInv /\ [MCNext]_MCvars => LimiterInv'
    BY DistributedStep, LimiterStep
<1> QED
    BY <1>1, <1>2, LimiterAllows, PTL DEF MCSpec

(* As long as services are registered one at a time, a copy that            *)
(* service_discover handed out never speaks of another service, for any     *)
(* number of services and names.  Two callers at once can draw the same id: *)
(* the increment of next_id in service_register is not locked.              *)
THEOREM CopiesMeanTheirService == OneAtATime => (MCSpec => []CopyMeansItsService)
<1> SUFFICES ASSUME OneAtATime PROVE MCSpec => []CopyMeansItsService
    OBVIOUS
<1>1. MCInit => RegistryInv
    BY DistributedInit, RegistryInit
<1>2. RegistryInv /\ [MCNext]_MCvars => RegistryInv'
    BY DistributedStep, RegistryStep
<1> QED
    BY <1>1, <1>2, CopyIsRight, PTL DEF MCSpec

(* metrics_export returns the whole text if that fits with its terminator,  *)
(* leaves the buffer exactly when the metrics before the last one alone     *)
(* need more than it holds, and without a metric leaves it unterminated,    *)
(* for any lists of metrics and any size of the buffer.                     *)
THEOREM ExportsWhatFits == MCSpec => []ExportedOrOverrun
<1>1. MCInit => MetricsInv
    BY DistributedInit, MetricsInit
<1>2. MetricsInv /\ [MCNext]_MCvars => MetricsInv'
    BY DistributedStep, MetricsStep
<1>3. MetricsInv => ExportedOrOverrun
    BY MetricsRight
<1> QED
    BY <1>1, <1>2, <1>3, PTL DEF MCSpec

(* The rate limiter, the registry with any number of threads that register  *)
(* services at once, a retried call, a token and the collector keep their   *)
(* types.                                                                   *)
DistributedInv == LimiterInv /\ RegistryTyped /\ RetryInv /\ TokenInv /\ MetricsInv

LEMMA DistributedTypes ==
    /\ MCInit => DistributedInv
    /\ DistributedInv /\ [MCNext]_MCvars => DistributedInv'
    /\ DistributedInv => /\ Limiter!TypeOK /\ Services!TypeOK /\ Retried!TypeOK
                         /\ Tokens!TypeOK /\ Collector!TypeOK
<1>1. MCInit => DistributedInv
    BY DistributedInit, LimiterInit, RegistryTypedInit, RetryInit, TokenInit, MetricsInit
       DEF DistributedInv
<1>2. DistributedInv /\ [MCNext]_MCvars => DistributedInv'
    BY DistributedStep, LimiterStep, RegistryTypedStep, RetryStep, TokenStep, MetricsStep
       DEF DistributedInv
<1>3. DistributedInv => /\ Limiter!TypeOK /\ Services!TypeOK /\ Retried!TypeOK
                        /\ Tokens!TypeOK /\ Collector!TypeOK
    BY MetricsRight DEF DistributedInv, LimiterInv, RegistryTyped, RetryInv, TokenInv
<1> QED
    BY <1>1, <1>2, <1>3
=============================================================================
