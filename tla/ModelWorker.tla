----------------------------- MODULE ModelWorker -----------------------------
(***************************************************************************)
(* The model services (embedding-model, reranking-model): worker processes *)
(* that batch the texts of a request through a llama context, behind a     *)
(* broker, and the calls of the server that use them (get_embeddings,      *)
(* get_rerankings).                                                        *)
(*                                                                         *)
(* The two workers are one program up to what they do with a text, so one  *)
(* variable, service, says which of them this deployment is.  A text is    *)
(* its number of tokens, or Unreadable when str_to_token fails.  What the  *)
(* model computes for a sequence is kept as the set of texts whose tokens  *)
(* went into it; a reranking score is any of Scores, or NaN.               *)
(***************************************************************************)
EXTENDS Integers, Sequences, FiniteSets

CONSTANTS Workers, Calls,
          Requests,     \* [{"embed", "rerank"} -> the requests callers send]
          NCtx,         \* n_ctx, which is also the capacity of the batch
          Scores

None == 0
Unreadable == -1
NaN == -1000

ASSUME ModelAssumption ==
  /\ NCtx \in Nat \ {0}
  /\ None \notin Calls
  /\ Scores \subseteq Int /\ NaN \notin Scores
  /\ \A s \in {"embed", "rerank"} : \A r \in Requests[s] :
       /\ r.wellFormed \in BOOLEAN
       /\ r.query \in Nat \cup {Unreadable}
       /\ r.texts \in Seq(Nat \cup {Unreadable})

VARIABLES
  service,   \* which of the two services runs
  request,   \* call -> what it asked for
  call,      \* call -> "new", "waiting", "done" or "failed"
  mail,      \* socket identity -> the answers on their way to it
  result,    \* call -> what get_embeddings or get_rerankings returned
  inbox,     \* worker -> the calls the broker gave it
  pc, job,
  todo,      \* worker -> the sequences still to be batched
  batch,     \* worker -> LlamaBatch
  seqs,      \* worker -> max_seq_id_batch
  output     \* worker -> output

callers == <<request, call, result>>
work == <<todo, batch, seqs, output>>
vars == <<service, request, call, mail, result, inbox, pc, job, todo, batch,
          seqs, output>>

NoRequest == [wellFormed |-> FALSE, query |-> 0, texts |-> <<>>]
Error == [ok |-> FALSE, items |-> <<>>]

(* A worker's main, up to its loop: the model is loaded, the batch empty. *)
InitWorkers ==
  /\ inbox = [w \in Workers |-> <<>>]
  /\ pc = [w \in Workers |-> "recv"]
  /\ job = [w \in Workers |-> None]
  /\ todo = [w \in Workers |-> <<>>]
  /\ batch = [w \in Workers |-> <<>>]
  /\ seqs = [w \in Workers |-> 0]
  /\ output = [w \in Workers |-> <<>>]

(* The CLI starts the broker and the workers of one of the services. *)
Init ==
  /\ service \in {"embed", "rerank"}
  /\ request = [c \in Calls |-> NoRequest]
  /\ call = [c \in Calls |-> "new"]
  /\ mail = [c \in Calls |-> <<>>]
  /\ result = [c \in Calls |-> Error]
  /\ InitWorkers

-----------------------------------------------------------------------------
(* The caller's side *)

(* The identity an answer is routed by.  The callers connect before they   *)
(* set one, so that it is the broker's own, fresh for every socket.        *)
MutIdentity(c) == CHOOSE d \in Calls : request[d] = request[c]
Identity(c) == c

(* The broker's proxy gives a request to a worker, and the answer back to  *)
(* the socket it came from.  What a stopped worker is given is lost.       *)
Deliver(c, w) == inbox' = [inbox EXCEPT ![w] = Append(@, c)]
SendTo(c, answer) == mail' = [mail EXCEPT ![Identity(c)] = Append(@, answer)]

(* A call connects a socket of its own and sends. *)
Send(c) ==
  /\ call[c] = "new"
  /\ \E r \in Requests[service] : request' = [request EXCEPT ![c] = r]
  /\ \E w \in Workers : Deliver(c, w)
  /\ call' = [call EXCEPT ![c] = "waiting"]
  /\ UNCHANGED <<service, mail, result, pc, job, work>>

(* recv_bytes returns: an error in the response is an error of the call. *)
TakeAnswer(c) ==
  /\ call[c] = "waiting"
  /\ mail[Identity(c)] # <<>>
  /\ LET answer == Head(mail[Identity(c)])
     IN  /\ result' = [result EXCEPT ![c] = answer]
         /\ call' = [call EXCEPT ![c] = IF answer.ok THEN "done" ELSE "failed"]
  /\ mail' = [mail EXCEPT ![Identity(c)] = Tail(@)]
  /\ UNCHANGED <<service, request, inbox, pc, job, work>>

(* set_rcvtimeo: the call gives up, whatever is still on its way. *)
TimeOut(c) ==
  /\ call[c] = "waiting"
  /\ call' = [call EXCEPT ![c] = "failed"]
  /\ UNCHANGED <<service, request, mail, result, inbox, pc, job, work>>

-----------------------------------------------------------------------------
(* Texts and sequences *)

(* A request the worker refuses as a whole. *)
Refused(r) ==
  \/ ~ r.wellFormed
  \/ /\ service = "rerank"
     /\ r.query \in {0, Unreadable} \/ r.query + 2 > NCtx

(* The positions of the texts that become sequences, and how long those    *)
(* are: an embedding is cut to the context, a pair that does not fit with  *)
(* its four separators is left out.                                        *)
MutFits(r, i) ==
  /\ r.texts[i] # Unreadable
  /\ CASE service = "embed" -> r.texts[i] > 0
       [] service = "rerank" -> r.texts[i] + r.query + 3 <= NCtx
Fits(r, i) ==
  /\ r.texts[i] # Unreadable
  /\ CASE service = "embed" -> r.texts[i] > 0
       [] service = "rerank" -> r.texts[i] + r.query + 4 <= NCtx

Kept(r) ==
  LET kept[n \in 0 .. Len(r.texts)] ==
        IF n = 0 THEN <<>>
        ELSE IF Fits(r, n) THEN Append(kept[n - 1], n) ELSE kept[n - 1]
  IN  kept[Len(r.texts)]

Length(r, i) ==
  CASE service = "embed" -> IF r.texts[i] > NCtx THEN NCtx ELSE r.texts[i]
    [] service = "rerank" -> r.texts[i] + r.query + 4

Sequences(c, r) ==
  [k \in DOMAIN Kept(r) |->
     [src |-> <<c, Kept(r)[k]>>, len |-> Length(r, Kept(r)[k])]]

(* batch.n_tokens(). *)
Tokens(b) == LET sum[k \in 0 .. Len(b)] == IF k = 0 THEN 0 ELSE sum[k - 1] + b[k].len
             IN  sum[Len(b)]

-----------------------------------------------------------------------------
(* The worker's loop *)

(* The request is over: the answer goes to the caller's socket.  The batch *)
(* is the only state that outlives it.                                     *)
Answer(w, answer) ==
  /\ SendTo(job[w], answer)
  /\ pc' = [pc EXCEPT ![w] = "recv"]
  /\ job' = [job EXCEPT ![w] = None]
  /\ todo' = [todo EXCEPT ![w] = <<>>]
  /\ seqs' = [seqs EXCEPT ![w] = 0]
  /\ output' = [output EXCEPT ![w] = <<>>]
  /\ UNCHANGED <<service, callers, inbox>>

ClearBatch(w) == batch' = [batch EXCEPT ![w] = <<>>]

(* recv_multipart: unpack and tokenize. *)
Receive(w) ==
  /\ pc[w] = "recv"
  /\ inbox[w] # <<>>
  /\ LET c == Head(inbox[w])
     IN  /\ job' = [job EXCEPT ![w] = c]
         /\ pc' = [pc EXCEPT ![w] = IF Refused(request[c]) THEN "refuse" ELSE "fill"]
         /\ todo' = [todo EXCEPT ![w] = Sequences(c, request[c])]
  /\ inbox' = [inbox EXCEPT ![w] = Tail(@)]
  /\ UNCHANGED <<service, callers, mail, batch, seqs, output>>

(* send_error, and back to waiting. *)
MutRefuse(w) ==
  /\ pc[w] = "refuse"
  /\ pc' = [pc EXCEPT ![w] = "recv"]
  /\ job' = [job EXCEPT ![w] = None]
  /\ todo' = [todo EXCEPT ![w] = <<>>]
  /\ UNCHANGED <<service, callers, mail, inbox, batch, seqs, output>>
Refuse(w) ==
  /\ pc[w] = "refuse"
  /\ Answer(w, Error)
  /\ UNCHANGED batch

(* embeddings_seq_ith after a decode: what sequence i was made from. *)
Pooled(b, i) == {b[k].src : k \in {j \in DOMAIN b : b[j].seq = i}}

(* batch_decode's output when it succeeds.  llama_decode refuses an empty batch. *)
Decodable(w) == batch[w] # <<>>
Decoded(w) == output[w] \o [i \in 1 .. seqs[w] |-> Pooled(batch[w], i - 1)]

MustFlush(w) == todo[w] # <<>> /\ Tokens(batch[w]) + Head(todo[w]).len > NCtx

(* The batch would overflow: decode it and start the next. *)
MutFlush(w) ==
  /\ pc[w] = "fill"
  /\ MustFlush(w) /\ Decodable(w)
  /\ output' = [output EXCEPT ![w] = Decoded(w)]
  /\ ClearBatch(w)
  /\ UNCHANGED <<service, callers, mail, inbox, pc, job, todo, seqs>>
Flush(w) ==
  /\ pc[w] = "fill"
  /\ MustFlush(w) /\ Decodable(w)
  /\ output' = [output EXCEPT ![w] = Decoded(w)]
  /\ ClearBatch(w)
  /\ seqs' = [seqs EXCEPT ![w] = 0]
  /\ UNCHANGED <<service, callers, mail, inbox, pc, job, todo>>

(* What an empty batch has no room for is an error, of the decode of the    *)
(* empty batch or of add_sequence, and ends the request.                    *)
AddSequence(w) ==
  /\ pc[w] = "fill"
  /\ todo[w] # <<>>
  /\ ~ (MustFlush(w) /\ Decodable(w))
  /\ IF MustFlush(w)
     THEN Answer(w, Error) /\ ClearBatch(w)
     ELSE /\ batch' = [batch EXCEPT ![w] = Append(@, [src |-> Head(todo[w]).src,
                                                      len |-> Head(todo[w]).len,
                                                      seq |-> seqs[w]])]
          /\ seqs' = [seqs EXCEPT ![w] = @ + 1]
          /\ todo' = [todo EXCEPT ![w] = Tail(@)]
          /\ UNCHANGED <<service, callers, mail, inbox, pc, job, output>>

(* A decode fails, in the middle of a request or at its end: the request is *)
(* answered with an error.  The batch is cleared on every path.             *)
MutDecodeFails(w) ==
  /\ pc[w] = "fill"
  /\ todo[w] = <<>> \/ (MustFlush(w) /\ Decodable(w))
  /\ Answer(w, Error)
  /\ UNCHANGED batch
DecodeFails(w) ==
  /\ pc[w] = "fill"
  /\ todo[w] = <<>> \/ (MustFlush(w) /\ Decodable(w))
  /\ Answer(w, Error)
  /\ ClearBatch(w)

-----------------------------------------------------------------------------
(* Answers *)

(* The comparator of the reranker's sort: descending, NaN last. *)
MutBefore(x, y) == IF x = NaN \/ y = NaN THEN x = NaN /\ y # NaN ELSE x > y
Before(x, y) == IF x = NaN \/ y = NaN THEN x # NaN /\ y = NaN ELSE x > y

(* Where a stable sort puts element i. *)
Place(score, i) ==
  1 + Cardinality({j \in DOMAIN score :
                     \/ Before(score[j], score[i])
                     \/ ~ Before(score[i], score[j]) /\ j < i})

(* ranks: the texts' positions zipped with their scores, sorted. *)
Ranks(r, out, score) ==
  [k \in DOMAIN score |->
     LET i == CHOOSE j \in DOMAIN score : Place(score, j) = k
     IN  [index |-> Kept(r)[i], score |-> score[i], of |-> out[i]]]

(* The last batch is decoded and the response sent. *)
Finish(w) ==
  /\ pc[w] = "fill"
  /\ todo[w] = <<>> /\ Decodable(w)
  /\ LET out == Decoded(w)
     IN  \/ /\ service = "embed"
            /\ Answer(w, [ok |-> TRUE, items |-> out])
         \/ /\ service = "rerank"
            /\ \E score \in [DOMAIN out -> Scores \cup {NaN}] :
                 Answer(w, [ok |-> TRUE,
                            items |-> Ranks(request[job[w]], out, score)])
  /\ ClearBatch(w)

(* recv_multipart fails: the process ends, and nothing starts another. *)
Stop(w) ==
  /\ pc[w] = "recv"
  /\ pc' = [pc EXCEPT ![w] = "stopped"]
  /\ UNCHANGED <<service, callers, mail, inbox, job, work>>

-----------------------------------------------------------------------------
Step(w) ==
  \/ Receive(w) \/ Refuse(w)
  \/ Flush(w) \/ AddSequence(w) \/ DecodeFails(w)
  \/ Finish(w)

Next ==
  \/ \E c \in Calls : Send(c) \/ TakeAnswer(c) \/ TimeOut(c)
  \/ \E w \in Workers : Step(w) \/ Stop(w)

Spec == Init /\ [][Next]_vars

(* A worker that has a request goes on with it; nothing else is assumed. *)
FairSpec == Spec /\ \A w \in Workers : WF_vars(Step(w))

-----------------------------------------------------------------------------
(* Properties *)

(* Every variable keeps its type, and max_seq_id_batch counts the sequences *)
(* in the batch, which are numbered from zero (the two main loops).         *)
TypeOK ==
  /\ service \in {"embed", "rerank"}
  /\ request \in [Calls -> Requests[service] \cup {NoRequest}]
  /\ call \in [Calls -> {"new", "waiting", "done", "failed"}]
  /\ \A w \in Workers :
       /\ pc[w] \in {"recv", "refuse", "fill", "stopped"}
       /\ job[w] \in Calls \cup {None}
       /\ pc[w] = "fill" => seqs[w] = Len(batch[w])
       /\ \A k \in DOMAIN batch[w] : batch[w][k].seq = k - 1

(* Nothing of a request outlives it in the worker's batch: a failed decode  *)
(* must not leave tokens for the next request's sequences to be added to    *)
(* (batch_decode).                                                          *)
BatchClean == \A w \in Workers : pc[w] # "fill" => batch[w] = <<>>

(* The guards on lengths agree with the batch's capacity: what is let in    *)
(* can be added to an empty batch, so that one long text never costs the    *)
(* whole request (the tokenizing loops, add_sequence).                      *)
SequencesFit ==
  \A w \in Workers : pc[w] = "fill" =>
    /\ Tokens(batch[w]) <= NCtx
    /\ \A k \in DOMAIN todo[w] : todo[w][k].len <= NCtx

(* What a call gets was computed from its own texts, each from one text and *)
(* in the order of the texts that became sequences, however the texts were  *)
(* batched, whatever failed before on that worker, and whichever answers    *)
(* came too late for the calls they were for (get_embeddings,               *)
(* get_rerankings, batch_decode).                                           *)
AnswersOwnTexts ==
  \A c \in Calls : call[c] = "done" =>
    /\ Len(result[c].items) = Len(Kept(request[c]))
    /\ service = "embed" =>
         \A k \in DOMAIN result[c].items :
           result[c].items[k] = {<<c, Kept(request[c])[k]>>}
    /\ service = "rerank" =>
         /\ \A k \in DOMAIN result[c].items :
              result[c].items[k].of = {<<c, result[c].items[k].index>>}
         /\ {result[c].items[k].index : k \in DOMAIN result[c].items}
              = {Kept(request[c])[k] : k \in DOMAIN Kept(request[c])}

(* The ranks a call gets are in descending order of score, with the NaN     *)
(* scores last and equal scores in the order of the texts (the reranker's   *)
(* sort).                                                                   *)
RanksOrdered ==
  \A c \in Calls : call[c] = "done" /\ service = "rerank" =>
    LET items == result[c].items
    IN  \A j, k \in DOMAIN items : j < k =>
          \/ items[j].score # NaN /\ items[k].score = NaN
          \/ items[j].score # NaN /\ items[j].score > items[k].score
          \/ items[j].score = items[k].score /\ items[j].index < items[k].index

(* Every request a worker has been given is answered, with a result or an   *)
(* error, unless the worker has stopped or its caller has given up: no      *)
(* request, however bad, takes the worker out of its loop (send_error and   *)
(* continue on every path).                                                 *)
RequestsAnswered ==
  \A c \in Calls :
    call[c] = "waiting" ~> \/ mail[c] # <<>>
                           \/ call[c] # "waiting"
                           \/ \E w \in Workers : pc[w] = "stopped"

=============================================================================
