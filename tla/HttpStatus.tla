----------------------------- MODULE HttpStatus -----------------------------
(***************************************************************************)
(* The status codes of src/http_status/http_status.c and                   *)
(* include/http_status.h.  A message is named by its code: the table gives *)
(* each code it has a message of its own.                                  *)
(***************************************************************************)
EXTENDS Integers

CONSTANT MaxCode    \* bound: codes asked about

Codes == -1 .. MaxCode

VARIABLES
    code,           \* the code asked about
    known,          \* http_status_get_message has a message for it
    category,       \* http_status_get_category
    holds           \* the http_status_is_... that return 1

vars == <<code, known, category, holds>>

Categories == {"INFORMATIONAL", "SUCCESS", "REDIRECTION", "CLIENT_ERROR", "SERVER_ERROR"}

(* The codes of http_status_code_t. *)
Declared ==
    (100 .. 103) \cup (200 .. 206) \cup (300 .. 304) \cup {307, 308}
    \cup (400 .. 418) \cup {422, 429} \cup (500 .. 505)

(* http_status_get_message has a case for the code. *)
Known(c) ==
    \/ c \in 100 .. 103
    \/ c \in 200 .. 206
    \/ c \in (300 .. 304) \cup {307, 308}
    \/ c \in (400 .. 418) \cup {422, 429}
    \/ c \in 500 .. 505

CategoryByRounding(c) ==
    CASE c > 100 /\ c <= 200 -> "INFORMATIONAL"
      [] c > 200 /\ c <= 300 -> "SUCCESS"
      [] c > 300 /\ c <= 400 -> "REDIRECTION"
      [] c > 500 /\ c <= 600 -> "SERVER_ERROR"
      [] OTHER -> "CLIENT_ERROR"

(* http_status_get_category; CLIENT_ERROR also for what is no status code. *)
Category(c) ==
    CASE c >= 100 /\ c < 200 -> "INFORMATIONAL"
      [] c >= 200 /\ c < 300 -> "SUCCESS"
      [] c >= 300 /\ c < 400 -> "REDIRECTION"
      [] c >= 400 /\ c < 500 -> "CLIENT_ERROR"
      [] c >= 500 /\ c < 600 -> "SERVER_ERROR"
      [] OTHER -> "CLIENT_ERROR"

(* http_status_is_informational .. http_status_is_error *)
Holds(c) ==
    {k \in Categories \cup {"ERROR"} :
        \/ k = "INFORMATIONAL" /\ c >= 100 /\ c < 200
        \/ k = "SUCCESS" /\ c >= 200 /\ c < 300
        \/ k = "REDIRECTION" /\ c >= 300 /\ c < 400
        \/ k \in {"CLIENT_ERROR", "ERROR"} /\ c >= 400 /\ c < 500
        \/ k \in {"SERVER_ERROR", "ERROR"} /\ c >= 500 /\ c < 600}

TypeOK ==
    /\ code \in Codes
    /\ known \in BOOLEAN
    /\ category \in Categories
    /\ holds \in SUBSET (Categories \cup {"ERROR"})

(* A caller asks all the functions about one code. *)
Ask(c) ==
    /\ code' = c
    /\ known' = Known(c)
    /\ category' = Category(c)
    /\ holds' = Holds(c)

Init ==
    /\ code = -1
    /\ known = Known(code)
    /\ category = Category(code)
    /\ holds = Holds(code)

Next == code + 1 \in Codes /\ Ask(code + 1)

Spec == Init /\ [][Next]_vars

-----------------------------------------------------------------------------
(* Properties. *)

(* The category and the predicates agree at every boundary: a code from 100 *)
(* to 599 satisfies the predicate of its category and no other, and counts  *)
(* as an error exactly from 400 on; what is no code satisfies none, though  *)
(* its category is CLIENT_ERROR.  There is a message for exactly the codes  *)
(* the header declares.                                                     *)
CategoriesAgree ==
    /\ IF code \in 100 .. 599
       THEN /\ holds \ {"ERROR"} = {category}
            /\ "ERROR" \in holds <=> code >= 400
       ELSE holds = {} /\ category = "CLIENT_ERROR"
    /\ known <=> code \in Declared
=============================================================================
