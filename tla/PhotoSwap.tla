------------------------------- MODULE PhotoSwap -------------------------------
(***************************************************************************)
(* ops/trocar_fotos_eu.py: it replaces the photos of European products one *)
(* by one, through the API, and moves the orphans that this leaves to the  *)
(* quarantine, batch after batch.  Its log and its exit status are all the *)
(* operator sees; calls are refused, do not arrive, or lose their answer.  *)
(* The API is external here: ProductPhotos models what it does with photos *)
(* and with orphans.                                                       *)
(***************************************************************************)
EXTENDS Naturals, Sequences, FiniteSets, SequencesExt

CONSTANTS
  Product,     \* the products of the site that the folder may name
  Shared,      \* those whose photo is that of Brazil: the API answers 403
  Orphan,      \* keys of the European bucket that may be cited nowhere
  BatchSize    \* LOTE_ORFAS

VARIABLES
  step,        \* what the script is doing
  queue,       \* fila: the lines of the plan that are not logged yet
  call,        \* the call that _enviar_com_tentativas repeats: its tries, its renewal
  token,       \* the session: whether it has expired, and can be renewed
  log,         \* the status that was logged of each product
  taken,       \* how many uploads of each product took effect
  orphans,     \* the orphans the API would find, in the order of its list
  listed,      \* those of the inventory
  confirm,     \* the set that the confirm of the last answer stands for
  count,       \* movidas and falhas
  trash,       \* keys in the quarantine
  exit         \* the exit status, once there is one

vars == <<step, queue, call, token, log, taken, orphans, listed, confirm, count, trash, exit>>
site == <<orphans, listed, confirm, count, trash>>
work == <<queue, call, token, log, taken>>

-----------------------------------------------------------------------------

NoExit == 9
Unlogged == "-"
NewCall == [tries |-> 0, renewed |-> FALSE]
Token == [expired : BOOLEAN, renewable : BOOLEAN]

TypeOK ==
  /\ step \in {"plan", "swap", "sent", "purge", "stop", "end"}
  /\ queue \in Seq(Product)
  /\ call \in [tries : 0..3, renewed : BOOLEAN]
  /\ token \in Token
  /\ log \in [Product -> {Unlogged, "OK", "COMPARTILHADO_BR", "ERRO", "NAO_TENTADO"}]
  /\ taken \in [Product -> Nat]
  /\ orphans \in Seq(Orphan) /\ listed \subseteq Orphan /\ confirm \subseteq Orphan
  /\ trash \subseteq Orphan /\ count \in [moved : Nat, failed : Nat]
  /\ exit \in {0, 1, 2, NoExit}

Init ==
  /\ step = "plan" /\ queue = <<>> /\ call = NewCall
  /\ token \in {t \in Token : ~t.expired}   \* ILYA_TOKEN cannot be renewed
  /\ log = [p \in Product |-> Unlogged] /\ taken = [p \in Product |-> 0]
  /\ \E S \in SUBSET Orphan : orphans = SetToSeq(S)
  /\ listed = {} /\ confirm = {} /\ trash = {}
  /\ count = [moved |-> 0, failed |-> 0]
  /\ exit = NoExit

Exits(with) == step' = "end" /\ exit' = with

-----------------------------------------------------------------------------
(* montar_plano, aplicar *)

\* A code with one file and one product is to be swapped; others are reported,
\* and so is what is done without --apply or without the word that confirms.
Plan ==
  /\ step = "plan"
  /\ \/ \E S \in SUBSET Product : S # {} /\ queue' = SetToSeq(S) /\ step' = "swap" /\ UNCHANGED exit
     \/ \E status \in {0, 1} : Exits(status) /\ UNCHANGED queue
  /\ UNCHANGED <<call, token, log, taken, site>>

Logs(status) ==
  /\ log' = [log EXCEPT ![queue[1]] = status]
  /\ queue' = Tail(queue) /\ call' = NewCall
  /\ step' = "swap"
  /\ UNCHANGED <<token, exit, site>>

\* ConnectError and ConnectTimeout: nothing arrived.
NotConnected ==
  /\ step = "swap" /\ queue # <<>>
  /\ \/ /\ call.tries < 2
        /\ call' = [call EXCEPT !.tries = @ + 1]
        /\ UNCHANGED <<step, queue, token, log, taken, exit, site>>
     \/ call.tries >= 2 /\ Logs("ERRO") /\ UNCHANGED taken

\* The upload arrives, and takes effect unless it is refused.
Send ==
  /\ step = "swap" /\ queue # <<>> /\ ~token.expired /\ queue[1] \notin Shared
  /\ taken' = [taken EXCEPT ![queue[1]] = @ + 1]
  /\ step' = "sent"
  /\ UNCHANGED <<queue, call, token, log, exit, site>>

Answered == step = "sent" /\ Logs("OK") /\ UNCHANGED taken

\* Faulty variant: a read timeout is tried again like a connection that failed.
LoseAnswerAndRepeat ==
  /\ step \in {"swap", "sent"} /\ queue # <<>>
  /\ call.tries < 2
  /\ call' = [call EXCEPT !.tries = @ + 1]
  /\ step' = "swap"
  /\ UNCHANGED <<queue, token, log, taken, exit, site>>

\* Any other httpx.HTTPError, whether or not it took effect: never repeated.
LoseAnswer ==
  /\ step \in {"swap", "sent"} /\ queue # <<>>
  /\ Logs("ERRO") /\ UNCHANGED taken

\* 429 and 503, before the API did anything.
Busy ==
  /\ step = "swap" /\ queue # <<>>
  /\ IF call.tries < 3
     THEN /\ call' = [call EXCEPT !.tries = @ + 1]
          /\ UNCHANGED <<step, queue, token, log, taken, exit, site>>
     ELSE Logs("ERRO") /\ UNCHANGED taken

Refused ==
  /\ step = "swap" /\ queue # <<>> /\ ~token.expired
  /\ \E status \in {"ERRO"} \cup {"COMPARTILHADO_BR" : p \in Shared \cap {queue[1]}} :
       Logs(status) /\ UNCHANGED taken

\* 401: one renewal for each product. One that fails stops the run, and what
\* is left is logged as not tried.
Unauthorized ==
  /\ step = "swap" /\ queue # <<>> /\ token.expired
  /\ \/ /\ ~call.renewed /\ token.renewable
        /\ token' = [token EXCEPT !.expired = FALSE]
        /\ call' = [call EXCEPT !.renewed = TRUE]
        /\ UNCHANGED <<step, queue, log, taken, exit, site>>
     \/ /\ ~call.renewed
        /\ log' = [p \in Product |-> IF p \in Range(queue) THEN "NAO_TENTADO" ELSE log[p]]
        /\ queue' = <<>> /\ call' = NewCall
        /\ UNCHANGED <<step, token, taken, exit, site>>
     \/ call.renewed /\ Logs("ERRO") /\ UNCHANGED taken

Expire ==
  /\ step \in {"swap", "purge"} /\ ~token.expired
  /\ token' = [token EXCEPT !.expired = TRUE]
  /\ UNCHANGED <<step, queue, call, log, taken, exit, site>>

EndSwap ==
  /\ step = "swap" /\ queue = <<>>
  /\ Exits(IF \E p \in Product : log[p] \in {"ERRO", "NAO_TENTADO"} THEN 2 ELSE 0)
  /\ UNCHANGED <<work, site>>

-----------------------------------------------------------------------------
(* executar_orfas *)

\* The script run with --orfas --apagar: inventariar_orfas, and the word.
Inventory ==
  /\ step = "plan" /\ orphans # <<>>
  /\ listed' = Range(orphans) /\ confirm' = Range(orphans)
  /\ step' = "purge"
  /\ UNCHANGED <<work, orphans, count, trash, exit>>

Total == Cardinality(listed)

\* Faulty variant: what failed is done with as well.
StatusOfAllSeen == IF count.moved + count.failed >= Total THEN 0 ELSE 2

Status == IF count.failed = 0 /\ count.moved = Total THEN 0 ELSE 2

\* A batch: the API moves the first of the orphans, if their set is the one
\* confirmed, and names what moved and what failed. What failed is the first
\* of the next batch again.
Batch ==
  /\ step = "purge" /\ count.moved + count.failed < Total
  /\ confirm = Range(orphans) /\ ~token.expired
  /\ LET batch == {orphans[k] : k \in {n \in DOMAIN orphans : n <= BatchSize}}
     IN  \E gone \in SUBSET batch :
           /\ orphans' = SelectSeq(orphans, LAMBDA k : k \notin gone)
           /\ trash' = trash \cup gone
           /\ \/ /\ count' = [moved |-> count.moved + Cardinality(gone),
                              failed |-> count.failed + Cardinality(batch \ gone)]
                 /\ confirm' = confirm \ gone
                 /\ step' = IF confirm' = {} \/ gone = {} THEN "stop" ELSE "purge"
                 /\ UNCHANGED exit
              \/ Exits(1) /\ UNCHANGED <<count, confirm>>   \* the answer is lost
  /\ UNCHANGED <<work, listed>>

\* 409: the set has changed. 401: one renewal, and else the call is over.
StopBatches ==
  /\ step = "purge" /\ count.moved + count.failed < Total
  /\ confirm # Range(orphans) \/ (token.expired /\ ~token.renewable)
  /\ step' = "stop"
  /\ UNCHANGED <<work, site, exit>>

Renew ==
  /\ step = "purge" /\ token.expired /\ token.renewable
  /\ token' = [token EXCEPT !.expired = FALSE]
  /\ UNCHANGED <<step, queue, call, log, taken, exit, site>>

EndPurge ==
  /\ step = "stop" \/ (step = "purge" /\ count.moved + count.failed >= Total)
  /\ Exits(Status)
  /\ UNCHANGED <<work, site>>

\* Someone replaces a photo, or takes one up again.
Change(k) ==
  /\ step = "purge"
  /\ orphans' = IF k \in Range(orphans) THEN SelectSeq(orphans, LAMBDA x : x # k)
                ELSE IF k \in trash THEN orphans ELSE Append(orphans, k)
  /\ UNCHANGED <<step, work, listed, confirm, count, trash, exit>>

Next ==
  \/ Plan \/ NotConnected \/ Send \/ Answered \/ LoseAnswer \/ Busy \/ Refused
  \/ Unauthorized \/ Expire \/ EndSwap
  \/ Inventory \/ Batch \/ StopBatches \/ Renew \/ EndPurge
  \/ \E k \in Orphan : Change(k)

Spec == Init /\ [][Next]_vars

-----------------------------------------------------------------------------

\* No photo is uploaded twice in a run, whatever is lost on the way; one that
\* was logged as swapped was, and one that was skipped was left alone.
LogTellsTheSite ==
  \A p \in Product :
    /\ taken[p] <= 1
    /\ log[p] = "OK" => taken[p] = 1
    /\ log[p] \in {"COMPARTILHADO_BR", "NAO_TENTADO"} => taken[p] = 0

\* A run that moved orphans ends well only when every one that the operator
\* was shown is in the quarantine, and moves no other one.
ListedOrphansAreMoved ==
  /\ trash \subseteq listed
  /\ exit = 0 => listed \subseteq trash

=============================================================================
