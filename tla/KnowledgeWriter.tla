---------------------------- MODULE KnowledgeWriter ----------------------------
(***************************************************************************)
(* POST /v1/knowledge (internal/knowledge): embed the documents, resolve   *)
(* the collection on the first write, upsert.  Requests run concurrently,  *)
(* each on its own deadline, and share one cached collection id behind a   *)
(* mutex that is held across the call to Chroma.  The embeddings API       *)
(* labels its vectors with the input they belong to and returns them in    *)
(* any order, possibly malformed; Chroma may fail, answer late, or come    *)
(* back empty.  An embedding is abstracted to the content it is of.        *)
(***************************************************************************)
EXTENDS Naturals, Sequences

CONSTANTS
  Upserts,      \* requests
  Documents,    \* [Upserts -> the sequence of document ids it carries]
  MaxLosses,    \* bound: how often Chroma comes back empty
  MaxRestarts,  \* bound: restarts of the gateway
  None

VARIABLES
  req,           \* [Upserts -> the request]
  mu,            \* who holds r.mu, or None
  collectionID,  \* the cached id, 0 for the empty string
  chroma,        \* the id of Chroma's collection of that name, 0 for none
  stored,        \* [DocIds -> the document in that collection, or None]
  losses, restarts

vars == <<req, mu, collectionID, chroma, stored, losses, restarts>>

Indices(u) == 1 .. Len(Documents[u])
DocIds == UNION {{Documents[u][i] : i \in Indices(u)} : u \in Upserts}

\* Each request brings its own version of the documents it carries.
Content(u, i) == [doc |-> Documents[u][i], by |-> u]
Contents == [doc : DocIds, by : Upserts]

ASSUME WriterAssumption ==
  /\ \A u \in Upserts : Documents[u] \in Seq(DocIds) /\ Documents[u] # << >>
  /\ None \notin Upserts \cup {"ok", "error"} \cup [content : Contents, vector : Contents]
  /\ MaxLosses \in Nat /\ MaxRestarts \in Nat

\* Every collection Chroma creates has an id of its own.
Ids   == 1 .. (MaxLosses + 1)
Fresh == losses + 1

Request == [pc : {"new", "embedding", "locking", "resolving", "writing", "done"},
            vectors : Seq(Contents), collection : Ids \cup {0},
            write : {"none", "sent", "landed"}, answer : {"ok", "error", None}]

TypeOK ==
  /\ req \in [Upserts -> Request]
  /\ mu \in Upserts \cup {None}
  /\ collectionID \in Ids \cup {0} /\ chroma \in Ids \cup {0}
  /\ stored \in [DocIds -> [content : Contents, vector : Contents] \cup {None}]
  /\ losses \in 0 .. MaxLosses /\ restarts \in 0 .. MaxRestarts

Init ==
  /\ req = [u \in Upserts |-> [pc |-> "new", vectors |-> << >>, collection |-> 0,
                               write |-> "none", answer |-> None]]
  /\ mu = None /\ collectionID = 0
  /\ chroma = 0 /\ stored = [d \in DocIds |-> None]
  /\ losses = 0 /\ restarts = 0

Becomes(u, r) == req' = [req EXCEPT ![u] = r]
Answered(r, answer) == [r EXCEPT !.pc = "done", !.answer = answer]

-----------------------------------------------------------------------------
(* OpenAIEmbedder.Embed().                                                 *)

\* What the API may send: a label for each vector, labels possibly wrong or missing.
Responses(u) ==
  LET n == Len(Documents[u])
  IN  [1 .. n -> 1 .. n + 1] \cup [1 .. n - 1 -> 1 .. n]

\* Mutant: the vectors are taken in the order they come.
Embed_ByPosition(u, labels) ==
  IF Len(labels) = Len(Documents[u]) /\ \A i \in Indices(u) : \E k \in DOMAIN labels : labels[k] = i
  THEN [i \in Indices(u) |-> Content(u, labels[i])]
  ELSE << >>

(* One vector per input and no label out of range, each vector put where   *)
(* its label says, and no input left without: << >> otherwise.             *)
Embed(u, labels) ==
  IF Len(labels) = Len(Documents[u]) /\ \A i \in Indices(u) : \E k \in DOMAIN labels : labels[k] = i
  THEN [i \in Indices(u) |-> Content(u, labels[CHOOSE k \in DOMAIN labels : labels[k] = i])]
  ELSE << >>

Post(u) ==
  /\ req[u].pc = "new"
  /\ Becomes(u, [req[u] EXCEPT !.pc = "embedding"])
  /\ UNCHANGED <<mu, collectionID, chroma, stored, losses, restarts>>

EmbedAnswers(u) ==
  /\ req[u].pc = "embedding"
  /\ \E labels \in Responses(u) :
       Becomes(u, IF Embed(u, labels) = << >> THEN Answered(req[u], "error")
                  ELSE [req[u] EXCEPT !.pc = "locking", !.vectors = Embed(u, labels)])
  /\ UNCHANGED <<mu, collectionID, chroma, stored, losses, restarts>>

-----------------------------------------------------------------------------
(* resolveCollection(), its lock and its call.                             *)

\* The lock is waited for without looking at the deadline.
Lock(u) ==
  /\ req[u].pc = "locking" /\ mu = None
  /\ IF collectionID # 0
     THEN Becomes(u, [req[u] EXCEPT !.pc = "writing", !.collection = collectionID]) /\ UNCHANGED mu
     ELSE Becomes(u, [req[u] EXCEPT !.pc = "resolving"]) /\ mu' = u
  /\ UNCHANGED <<collectionID, chroma, stored, losses, restarts>>

\* Mutant: without get_or_create, every caller makes a collection of that name.
GetOrCreate_AlwaysNew == chroma' = chroma + 1

GetOrCreate == chroma' = IF chroma = 0 THEN Fresh ELSE chroma

Resolves(u) ==
  /\ req[u].pc = "resolving"
  /\ GetOrCreate
  /\ collectionID' = chroma'
  /\ mu' = None
  /\ Becomes(u, [req[u] EXCEPT !.pc = "writing", !.collection = chroma'])
  /\ UNCHANGED <<stored, losses, restarts>>

\* Mutant: the lock is released only where the id was found.
ResolveFails_KeepsLock(u) ==
  /\ req[u].pc = "resolving"
  /\ GetOrCreate \/ UNCHANGED chroma
  /\ Becomes(u, Answered(req[u], "error"))
  /\ UNCHANGED <<mu, collectionID, stored, losses, restarts>>

(* The call fails, or its answer does not come in time: nothing is cached, *)
(* so that the next request tries again.                                   *)
ResolveFails(u) ==
  /\ req[u].pc = "resolving"
  /\ GetOrCreate \/ UNCHANGED chroma
  /\ mu' = None
  /\ Becomes(u, Answered(req[u], "error"))
  /\ UNCHANGED <<collectionID, stored, losses, restarts>>

-----------------------------------------------------------------------------
(* Upsert()'s write.                                                       *)

SendWrite(u) ==
  /\ req[u].pc = "writing" /\ req[u].write = "none"
  /\ Becomes(u, [req[u] EXCEPT !.write = "sent"])
  /\ UNCHANGED <<mu, collectionID, chroma, stored, losses, restarts>>

\* Chroma upserts the batch, also when its request was given up meanwhile.
WriteLands(u) ==
  /\ req[u].write = "sent" /\ chroma = req[u].collection
  /\ stored' = [d \in DocIds |->
                  IF \E i \in Indices(u) : Documents[u][i] = d
                  THEN LET i == CHOOSE i \in Indices(u) : Documents[u][i] = d
                       IN  [content |-> Content(u, i), vector |-> req[u].vectors[i]]
                  ELSE stored[d]]
  /\ Becomes(u, [req[u] EXCEPT !.write = "landed"])
  /\ UNCHANGED <<mu, collectionID, chroma, losses, restarts>>

\* Mutant: an answer that is not a 2xx counts.
WriteAnswered_AnyStatus(u) ==
  /\ req[u].pc = "writing" /\ req[u].write # "none"
  /\ Becomes(u, Answered(req[u], "ok"))
  /\ UNCHANGED <<mu, collectionID, chroma, stored, losses, restarts>>

WriteAnswered(u) ==
  /\ req[u].pc = "writing" /\ req[u].write = "landed"
  /\ Becomes(u, Answered(req[u], "ok"))
  /\ UNCHANGED <<mu, collectionID, chroma, stored, losses, restarts>>

\* The embedding, the write or its answer fails or is late; a collection that is gone is a 404.
Fails(u) ==
  /\ req[u].pc \in {"embedding", "writing"}
  /\ Becomes(u, Answered(req[u], "error"))
  /\ UNCHANGED <<mu, collectionID, chroma, stored, losses, restarts>>

-----------------------------------------------------------------------------
(* The processes around it.                                                *)

ChromaComesBackEmpty ==
  /\ chroma # 0 /\ losses < MaxLosses
  /\ chroma' = 0
  /\ stored' = [d \in DocIds |-> None]
  /\ losses' = losses + 1
  /\ UNCHANGED <<req, mu, collectionID, restarts>>

\* A new process, with nothing resolved; its callers see a broken connection.
GatewayRestarts ==
  /\ restarts < MaxRestarts
  /\ restarts' = restarts + 1
  /\ mu' = None /\ collectionID' = 0
  /\ req' = [u \in Upserts |-> IF req[u].pc \in {"new", "done"} THEN req[u]
                               ELSE Answered(req[u], "error")]
  /\ UNCHANGED <<chroma, stored, losses>>

UpsertStep(u) == \/ EmbedAnswers(u) \/ Lock(u) \/ Resolves(u) \/ ResolveFails(u)
                 \/ SendWrite(u) \/ WriteAnswered(u) \/ Fails(u)

Next == \/ \E u \in Upserts : Post(u) \/ UpsertStep(u) \/ WriteLands(u)
        \/ ChromaComesBackEmpty \/ GatewayRestarts

Spec == Init /\ [][Next]_vars

(* A request takes its next step, if only its deadline's; the mutex of Go  *)
(* hands the lock to every waiter in the end.                              *)
Fairness == \A u \in Upserts : WF_vars(UpsertStep(u)) /\ SF_vars(Lock(u))

FairSpec == Spec /\ Fairness

-----------------------------------------------------------------------------
(* No document is stored with the vector of another, or of another version *)
(* of itself, in whatever order the API answered and requests overtook     *)
(* each other.                                                             *)
VectorsMatch == \A d \in DocIds : stored[d] # None => stored[d].vector = stored[d].content

(* A request that was answered ok can be found: as long as Chroma keeps    *)
(* the collection it wrote to, every document of it is there, in its       *)
(* version or in one written by another request.                           *)
OkMeansSearchable ==
  \A u \in Upserts : req[u].answer = "ok" /\ req[u].collection = chroma =>
    \A i \in Indices(u) : stored[Documents[u][i]] # None

(* Every request is answered: none waits for ever on the lock of another   *)
(* whose call failed.                                                      *)
EveryUpsertIsAnswered == \A u \in Upserts : req[u].pc = "embedding" ~> req[u].pc = "done"
=============================================================================
