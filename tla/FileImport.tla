----------------------------- MODULE FileImport -----------------------------
(***************************************************************************)
(* Payments read out of a file exported from the Paymaxis console            *)
(* (PaymaxisService.importExportRows), beside the poll, the callbacks and    *)
(* other uploads, which write the same table.  A row is keyed as a polled    *)
(* one is; a file repairs what an earlier file stored and leaves alone what  *)
(* the provider itself sent.                                                 *)
(*                                                                          *)
(* A row keeps who sent it: nobody, the provider, or the upload that did, by *)
(* its number.  What the columns of a file say is left out.                  *)
(***************************************************************************)
EXTENDS Integers, FiniteSets

CONSTANTS
    Keys,        \* dedupeKey: a payment in a state
    Uploaders,   \* requests that may be under way at once
    MaxUploads   \* bound: uploads ever begun

ASSUME UploadsAssumption == MaxUploads \in Nat

VARIABLES
    sent,     \* who sent each row of PaymentEvent, 0 if there is none
    upload,   \* where each request is, and its locals
    uploads,  \* how many have been begun
    crossed   \* ghost: keys that another upload has stored since this one looked

importVars == <<sent, upload, uploads, crossed>>

Nobody == 0
FromProvider == -1
FromFile(n) == n > 0

NoUpload == [pc |-> "idle", number |-> 0, batch |-> {}, stale |-> {}, writable |-> {},
             sees |-> [k \in Keys |-> Nobody]]

ImportTypeOK ==
    /\ sent \in [Keys -> -1..MaxUploads]
    /\ upload \in [Uploaders ->
         [pc : {"idle", "read", "replace", "insert"}, number : 0..MaxUploads,
          batch : SUBSET Keys, stale : SUBSET Keys, writable : SUBSET Keys,
          sees : [Keys -> -1..MaxUploads]]]
    /\ uploads \in 0..MaxUploads
    /\ crossed \in [Uploaders -> SUBSET Keys]

ImportInit ==
    /\ sent = [k \in Keys |-> Nobody]
    /\ upload = [u \in Uploaders |-> NoUpload]
    /\ uploads = 0
    /\ crossed = [u \in Uploaders |-> {}]

-----------------------------------------------------------------------------
\* storePage's createMany, and handlePaymaxis's create: a key that is held is
\* skipped.  (The rows they write: module PaymentIngest.)
ProviderStores(k) ==
    /\ sent[k] = Nobody
    /\ sent' = [sent EXCEPT ![k] = FromProvider]
    /\ UNCHANGED <<upload, uploads, crossed>>

Proceed(u, locals) == upload' = [upload EXCEPT ![u] = locals]

\* A batch of a file, mapped, with repeats inside it left out.
BeginUpload(u, batch) ==
    /\ upload[u].pc = "idle"
    /\ uploads < MaxUploads
    /\ uploads' = uploads + 1
    /\ Proceed(u, [NoUpload EXCEPT !.pc = "read", !.number = uploads + 1, !.batch = batch])
    /\ UNCHANGED <<sent, crossed>>

\* Seeded fault: whatever is held is replaced.
HeldAtAll(row) == row # Nobody

\* Rows an upload may replace.
Replaceable(row) == FromFile(row)

\* heldBy: which of the keys are held, and how they got here.
FindHeldBy(u) ==
    LET stale == {k \in upload[u].batch : Replaceable(sent[k])} IN
    /\ upload[u].pc = "read"
    /\ Proceed(u, [upload[u] EXCEPT !.pc = "replace", !.stale = stale,
          !.writable = stale \cup {k \in upload[u].batch : sent[k] = Nobody}])
    /\ crossed' = [crossed EXCEPT ![u] = {}]
    /\ UNCHANGED <<sent, uploads>>

\* The transaction's deleteMany begins: it sees the rows as they are now.
BeginReplace(u) ==
    /\ upload[u].pc = "replace"
    /\ Proceed(u, [upload[u] EXCEPT !.pc = "insert", !.sees = sent])
    /\ UNCHANGED <<sent, uploads, crossed>>

\* Of the rows it saw, those still there are deleted; another transaction that
\* replaced one in between leaves it nothing to delete.
Deleted(u) ==
    {k \in upload[u].stale : Replaceable(upload[u].sees[k]) /\ sent[k] = upload[u].sees[k]}

\* createMany with skipDuplicates, and the transaction commits.
Inserted(u) ==
    {k \in upload[u].writable : k \in Deleted(u) \/ sent[k] = Nobody}

CommitUpload(u) ==
    /\ upload[u].pc = "insert"
    /\ sent' = [k \in Keys |-> IF k \in Inserted(u) THEN upload[u].number ELSE sent[k]]
    /\ Proceed(u, NoUpload)
    /\ crossed' = [v \in Uploaders |-> IF v = u THEN {} ELSE crossed[v] \cup Inserted(u)]
    /\ UNCHANGED uploads

\* The read or the transaction fails: nothing is stored, and the person told.
UploadFails(u) ==
    /\ upload[u].pc # "idle"
    /\ Proceed(u, NoUpload)
    /\ UNCHANGED <<sent, uploads, crossed>>

ImportNext ==
    \/ \E k \in Keys : ProviderStores(k)
    \/ \E u \in Uploaders :
        \/ \E batch \in SUBSET Keys \ {{}} : BeginUpload(u, batch)
        \/ FindHeldBy(u)
        \/ BeginReplace(u)
        \/ CommitUpload(u)
        \/ UploadFails(u)

ImportSpec == ImportInit /\ [][ImportNext]_importVars

-----------------------------------------------------------------------------
\* paymaxis.service.ts:1184, "an import must not overwrite a webhook or a poll",
\* and :1188, "it SHOULD replace an earlier import": whoever else writes, an
\* upload leaves every row the provider sent as it was, and once it is stored
\* each key of its batch is held, by the provider or as this file has it, but
\* for a key that another upload stored since this one looked.
ImportRepairsOnly ==
    [][/\ \A k \in Keys : sent[k] = FromProvider => sent'[k] = FromProvider
       /\ \A k \in Keys : sent[k] # Nobody => sent'[k] # Nobody
       /\ \A u \in Uploaders :
            upload[u].pc = "insert" /\ sent' # sent /\ upload'[u].pc = "idle" =>
                \A k \in upload[u].batch \ crossed[u] :
                    sent'[k] \in {FromProvider, upload[u].number}]_importVars

\* What an upload under way relies on, for the keys no other upload has stored
\* since it looked: those an earlier file holds are still held by a file, as
\* they were when its transaction began, and the provider has at most stored
\* the others.
UploadKnows(u) ==
    LET own == upload[u] IN
    /\ own.pc # "idle" => own.number > 0
    /\ own.pc \in {"replace", "insert"} =>
         /\ own.stale \subseteq own.writable
         /\ own.writable \subseteq own.batch
         /\ \A k \in own.stale \ crossed[u] : FromFile(sent[k])
         /\ \A k \in own.batch \ (own.stale \cup crossed[u]) :
              sent[k] = FromProvider \/ (sent[k] = Nobody /\ k \in own.writable)
    /\ own.pc = "insert" => \A k \in own.stale \ crossed[u] : own.sees[k] = sent[k]

ImportInv == ImportTypeOK /\ \A u \in Uploaders : UploadKnows(u)
=============================================================================
