------------------------------- MODULE Indexer -------------------------------
(***************************************************************************)
(* MessageIndexer against Elasticsearch: the retry loop that stores a      *)
(* message, and the two queries that read the index.                       *)
(*                                                                         *)
(* A request that fails (no answer, or an error in the answer: both are    *)
(* retried) may have been carried out all the same, or be carried out      *)
(* later, while a retry of it is under way or after the caller was told    *)
(* that it failed.  A stored document shows in queries after a refresh of  *)
(* its shard.                                                              *)
(***************************************************************************)
EXTENDS Naturals, FiniteSets, Functions

CONSTANTS Messages,    \* messages, named by their IDs
          Users, Channels,
          AuthorOf, ChannelOf, CreatedAt,  \* the fields of a message
          NoAuthor,    \* the empty author filter
          MaxRetries,
          PageSize,    \* the hits of a search that asks for no number
          Widths       \* intervals of statistics

ASSUME MessagesAssumption == IsFiniteSet(Messages)
ASSUME FieldsAssumption == /\ AuthorOf \in [Messages -> Users]
                           /\ ChannelOf \in [Messages -> Channels]
                           /\ CreatedAt \in [Messages -> Nat]
ASSUME NoAuthorAssumption == NoAuthor \notin Users
ASSUME WidthsAssumption == Widths \subseteq Nat \ {0}
ASSUME MaxRetriesAssumption == MaxRetries \in Nat
ASSUME PageSizeAssumption == PageSize \in Nat

VARIABLES docs,      \* the index: documents with their ids
          visible,   \* the documents that a search finds
          inFlight,  \* requests that may still be carried out
          answer,    \* answer[m]: what IndexMessage returned for m
          retries    \* retries made for the message being indexed

indexVars == <<docs, visible, inFlight, answer, retries>>

\* mutant: the index picks an id for every request
DocumentIDPerRequest(m, n) == <<m, n>>

(* WithDocumentID: every attempt for m names the same document.            *)
DocumentID(m, n) == m

Document(m, n) == [id |-> DocumentID(m, n), message |-> m]

IndexInit ==
  /\ docs = {}
  /\ visible = {}
  /\ inFlight = {}
  /\ answer = [m \in Messages |-> "none"]
  /\ retries = 0

-----------------------------------------------------------------------------
(* Elasticsearch.                                                          *)

(* It carries out a request: a document of the same id is replaced.        *)
Write ==
  /\ \E d \in inFlight :
       /\ docs' = {e \in docs : e.id # d.id} \cup {d}
       /\ inFlight' = inFlight \ {d}
  /\ UNCHANGED <<visible, answer, retries>>

(* Each shard refreshes when it likes.                                     *)
Refresh ==
  /\ \E d \in docs \ visible : visible' = visible \cup {d}
  /\ UNCHANGED <<docs, inFlight, answer, retries>>

-----------------------------------------------------------------------------
(* IndexMessage.                                                           *)

Indexing(m) == answer[m] = "taken"

IndexMessage(m) ==
  /\ answer[m] = "none"
  /\ answer' = [answer EXCEPT ![m] = "taken"]
  /\ retries' = 0
  /\ inFlight' = inFlight \cup {Document(m, 0)}
  /\ UNCHANGED <<docs, visible>>

(* The answer to a request that was carried out.  (If an earlier one was,   *)
(* this one may still be in flight; carrying it out changes nothing.)       *)
IndexDone(m) ==
  /\ Indexing(m)
  /\ Document(m, retries) \in docs
  /\ answer' = [answer EXCEPT ![m] = "sent"]
  /\ UNCHANGED <<docs, visible, inFlight, retries>>

\* mutant: one retry too many
GivesUpLate(n) == n > MaxRetries

(* WithMaxRetries.                                                         *)
GivesUp(n) == n >= MaxRetries

\* mutant: the backoff does not count
Uncounted(n) == n

Retried(n) == n + 1

\* mutant: the error of the last attempt is logged and dropped
LastErrorDropped == "sent"

(* What IndexMessage returns when it gives up.                             *)
LastError == "failed"

(* A transport error, or an answer with an error (parseESError): retried   *)
(* either way.                                                             *)
IndexFails(m) ==
  /\ Indexing(m)
  /\ IF GivesUp(retries)
     THEN /\ answer' = [answer EXCEPT ![m] = LastError]
          /\ UNCHANGED <<inFlight, retries>>
     ELSE /\ retries' = Retried(retries)
          /\ inFlight' = inFlight \cup {Document(m, Retried(retries))}
          /\ UNCHANGED answer
  /\ UNCHANGED <<docs, visible>>

-----------------------------------------------------------------------------
(* ListDocuments and GetMessageStats.                                      *)

\* mutant: the filter on the channel is lost
MatchesAnyChannel(d, ch, author) == author \in {AuthorOf[d.message], NoAuthor}

(* The filters of a listing; an empty author is no filter.                 *)
Matches(d, ch, author) == /\ ChannelOf[d.message] = ch
                          /\ author \in {AuthorOf[d.message], NoAuthor}

Hits(ch, author) == {d \in visible : Matches(d, ch, author)}

(* The newest hits, as many as a page holds; of those stamped alike any.   *)
Pages(hits) ==
  {p \in SUBSET hits :
     /\ Cardinality(p) <= PageSize
     /\ Cardinality(p) < PageSize => p = hits
     /\ \A d \in p, e \in hits \ p : CreatedAt[d.message] >= CreatedAt[e.message]}

(* Statistics filter by the author always, an empty one included.          *)
StatHits(ch, author) == {d \in visible : ChannelOf[d.message] = ch /\ AuthorOf[d.message] = author}

Bucket(m, width) == CreatedAt[m] \div width
BucketKeys == {Bucket(m, w) : m \in Messages, w \in Widths}

(* The date histogram.  A count of 0 stands for a bucket that is left out  *)
(* (MinDocCount).                                                          *)
Buckets(hits, width) ==
  [b \in BucketKeys |-> Cardinality({d \in hits : Bucket(d.message, width) = b})]
NoBuckets == [b \in BucketKeys |-> 0]

-----------------------------------------------------------------------------
IndexTypeOK ==
  /\ docs \in SUBSET {Document(m, n) : m \in Messages, n \in 0 .. MaxRetries}
  /\ visible \subseteq docs
  /\ inFlight \in SUBSET {Document(m, n) : m \in Messages, n \in 0 .. MaxRetries}
  /\ answer \in [Messages -> {"none", "taken", "sent", "failed"}]
  /\ retries \in 0 .. MaxRetries

(* A message is in the index once, whatever requests for it were repeated, *)
(* answered late or carried out late.                                      *)
OneDocument == \A d, e \in docs : d.message = e.message => d = e

=============================================================================
