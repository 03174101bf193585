------------------------------- MODULE Tokens -------------------------------
(***************************************************************************)
(* Reference-counted tokens (core/lf_token.c).  The operators work on a    *)
(* record E with the fields                                                *)
(*   tok     the tokens allocated so far, a sequence of [refs, value]      *)
(*   bin     the recycling bin, a set of tokens                            *)
(*   tmplt   the token of every template (port, action, trigger), 0 = NULL *)
(*   copies  _lf_tokens_allocated_in_reactions                             *)
(* A token is its position in tok, its payload a number, 0 = NULL.  Which  *)
(* token leaves the bin depends on addresses: here it is the least.        *)
(***************************************************************************)
EXTENDS Integers, Sequences

LOCAL INSTANCE FiniteSetsExt

FreshToken(E) == IF E.bin = {} THEN Len(E.tok) + 1 ELSE Min(E.bin)

\* _lf_new_token, which is FreshToken(E).
NewToken(E, value, refs) ==
    LET t == FreshToken(E)
        token == [refs |-> refs, value |-> value]
    IN  [E EXCEPT !.tok = IF t > Len(@) THEN Append(@, token) ELSE [@ EXCEPT ![t] = token],
                  !.bin = @ \ {t}]

Retain(E, t) == IF t = 0 THEN E ELSE [E EXCEPT !.tok[t].refs = @ + 1]

\* _lf_done_using, with _lf_free_token
DoneUsing(E, t) ==
    IF t = 0 THEN E
    ELSE IF E.tok[t].refs = 0 THEN E
    ELSE IF E.tok[t].refs > 1 THEN [E EXCEPT !.tok[t].refs = @ - 1]
    ELSE [E EXCEPT !.tok[t] = [refs |-> 0, value |-> 0], !.bin = @ \cup {t}]

\* _lf_get_token: the template's own token when nobody else uses it.
GetToken(E, x) ==
    LET t == E.tmplt[x]
        R == DoneUsing(E, t)
    IN  IF t # 0 /\ E.tok[t].refs = 1 THEN [E EXCEPT !.tok[t].value = 0]
        ELSE [NewToken(R, 0, 1) EXCEPT !.tmplt[x] = FreshToken(R)]

\* _lf_initialize_token_with_value; the token is then the template's.
TokenWithValue(E, x, value) ==
    LET R == GetToken(E, x) IN [R EXCEPT !.tok[R.tmplt[x]].value = value]

\* Mutant: the template does not count as a user.
ReplaceUncounted(E, x, t) ==
    IF E.tmplt[x] = t THEN E ELSE [DoneUsing(E, E.tmplt[x]) EXCEPT !.tmplt[x] = t]

\* _lf_replace_template_token
ReplaceTemplateToken(E, x, t) ==
    IF E.tmplt[x] = t THEN E
    ELSE [Retain(DoneUsing(E, E.tmplt[x]), t) EXCEPT !.tmplt[x] = t]

\* lf_writable_copy of the token of a port with so many destinations: the token
\* itself, or a copy that is given back when the tag ends.
IsWritable(E, x, destinations) == destinations = 1 /\ E.tok[E.tmplt[x]].refs = 1
WritableCopy(E, x, destinations) ==
    IF IsWritable(E, x, destinations) THEN E
    ELSE [NewToken(E, E.tok[E.tmplt[x]].value, 1) EXCEPT !.copies = <<FreshToken(E)>> \o @]

\* _lf_free_token_copies
RECURSIVE FreeTokenCopies(_)
FreeTokenCopies(E) ==
    IF E.copies = <<>> THEN E
    ELSE FreeTokenCopies([DoneUsing(E, Head(E.copies)) EXCEPT !.copies = Tail(@)])

\* _lf_free_all_tokens
RECURSIVE FreeTemplates(_, _)
FreeTemplates(E, xs) ==
    IF xs = {} THEN [E EXCEPT !.bin = {}]
    ELSE LET x == CHOOSE y \in xs : TRUE
         IN  FreeTemplates([DoneUsing(E, E.tmplt[x]) EXCEPT !.tmplt[x] = 0], xs \ {x})
=============================================================================
