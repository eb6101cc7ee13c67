--------------------------- MODULE FinanceLedger ---------------------------
(* FinanceLedger.import_csv of finance.py over PostgresFinanceSnapshotStore: exports
   of one account are uploaded, parsed and merged into the owner's snapshot.

   The snapshot is one row, read before the merge and written back whole after it,
   and the requests that import run next to each other. Statements fail, and a
   commit that took effect can look as if it had not. What a row says of date,
   amount and description is one value here.                                    *)
EXTENDS Naturals, Sequences, FiniteSets, Functions

CONSTANTS
  Imports,        \* requests to POST /api/finance/import
  Exports,        \* the contents that may be uploaded: sequences of rows
  SourceNames,    \* the names they are uploaded under
  NoProviderId,   \* a row without transaction_id
  Outages         \* bound: failures

\* a row: [provider, says, status, readable]
ExportedRows == UNION {Range(e) : e \in Exports}
ASSUME FinanceAssumption ==
  /\ Outages \in Nat
  /\ Exports \subseteq Seq(ExportedRows)
  /\ "provider" \notin SourceNames   \* a tag of its own
  /\ \A e \in Exports : \A row \in Range(e) :
       row.status \in {"pending", "posted", "other"} /\ row.readable \in BOOLEAN

VARIABLES
  snapshot,   \* the row: transactions, and the imports that made it
  importer,   \* where each request is, the copy it merges into, what it reported
  outages

financeVars == <<snapshot, importer, outages>>

NoSnapshot == [transactions |-> {}, sources |-> {}]
NoUpload == [export |-> <<>>, source |-> "none"]

FinanceInit ==
  /\ snapshot = NoSnapshot
  /\ importer = [i \in Imports |-> [at |-> "idle", upload |-> NoUpload, copy |-> NoSnapshot]]
  /\ outages = 0

-----------------------------------------------------------------------------
(* import_csv_transactions                                                   *)

\* what the provider calls it, or else a digest of the source and of what is said
Identity(u, i) ==
  LET row == u.export[i] IN
  IF row.provider # NoProviderId THEN <<"provider", row.provider>> ELSE <<u.source, row.says>>

\* a row is seen once it is read, even when its status is none
Seen(u, i) == \E j \in 1..(i - 1) : u.export[j].readable /\ Identity(u, j) = Identity(u, i)
Duplicate(u, i) == u.export[i].readable /\ Seen(u, i)
RejectedRow(u, i) ==
  ~u.export[i].readable \/ (~Seen(u, i) /\ u.export[i].status = "other")
Accepted(u) == {i \in DOMAIN u.export : ~Duplicate(u, i) /\ ~RejectedRow(u, i)}

TransactionOf(u, i) ==
  [id |-> <<u.source, Identity(u, i)>>, provider |-> u.export[i].provider,
   status |-> u.export[i].status, source |-> u.source]
SourceOf(u) ==
  [upload |-> u, complete |-> \A i \in DOMAIN u.export : ~RejectedRow(u, i)]

-----------------------------------------------------------------------------
(* import_csv                                                                *)

\* Fault: no provider id is an id like any other.
AnyProviderId(copy) == {t.provider : t \in copy.transactions}
ProviderIds(copy) == {t.provider : t \in copy.transactions} \ {NoProviderId}

NewTo(copy, item) ==
  item.id \notin {t.id : t \in copy.transactions} /\ item.provider \notin ProviderIds(copy)
\* what another source calls the same is not added again, and is posted if this
\* source says so
PostedBy(copy, items) ==
  {p \in copy.transactions \X items :
     LET t == p[1]  item == p[2] IN
     /\ item.id \notin {o.id : o \in copy.transactions}
     /\ item.provider \in ProviderIds(copy) /\ t.provider = item.provider
     /\ t.status = "pending" /\ item.status = "posted"}

Merged(copy, u) ==
  LET items == {TransactionOf(u, i) : i \in Accepted(u)}
      posts == PostedBy(copy, items)
  IN [transactions |->
        (copy.transactions \ {p[1] : p \in posts})
          \cup {[p[1] EXCEPT !.status = "posted", !.source = p[2].source] : p \in posts}
          \cup {item \in items : NewTo(copy, item)},
      sources |-> copy.sources \cup {SourceOf(u)}]

\* the locals of the request are gone with it
ImportEnds(i, at) == importer' = [importer EXCEPT ![i] = [@ EXCEPT !.at = at, !.copy = NoSnapshot]]

\* an account that is not there is refused
LoadSnapshot(i) ==
  /\ importer[i].at = "idle"
  /\ \/ ImportEnds(i, "refused")
     \/ \E e \in Exports, s \in SourceNames :
          importer' = [importer EXCEPT ![i] =
            [at |-> "merge", upload |-> [export |-> e, source |-> s], copy |-> snapshot]]
  /\ UNCHANGED <<snapshot, outages>>

\* a content is imported once, whatever it was called
KnownContent(i) ==
  \E s \in importer[i].copy.sources : s.upload.export = importer[i].upload.export
MergeUpload(i) ==
  /\ importer[i].at = "merge"
  /\ IF KnownContent(i) THEN ImportEnds(i, "known")
     ELSE importer' = [importer EXCEPT ![i].at = "save",
                         ![i].copy = Merged(importer[i].copy, importer[i].upload)]
  /\ UNCHANGED <<snapshot, outages>>
\* INSERT ... ON CONFLICT DO UPDATE, and commit
SaveSnapshot(i) ==
  /\ importer[i].at = "save"
  /\ snapshot' = importer[i].copy
  /\ ImportEnds(i, "imported")
  /\ UNCHANGED outages

ImportFails(i) ==
  /\ importer[i].at \in {"merge", "save"} /\ outages < Outages
  /\ outages' = outages + 1
  /\ ImportEnds(i, "failed")
  /\ \/ UNCHANGED snapshot
     \/ importer[i].at = "save" /\ snapshot' = importer[i].copy

FinanceNext ==
  \E i \in Imports : LoadSnapshot(i) \/ MergeUpload(i) \/ SaveSnapshot(i) \/ ImportFails(i)

FinanceSpec == FinanceInit /\ [][FinanceNext]_financeVars

-----------------------------------------------------------------------------
FinanceTypeOK ==
  /\ \A t \in snapshot.transactions : t.status \in {"pending", "posted"}
                                      /\ t.source \in SourceNames
  /\ \A s \in snapshot.sources : s.upload.export \in Exports /\ s.complete \in BOOLEAN
  /\ \A i \in Imports : importer[i].at \in {"idle", "merge", "save", "known", "imported",
                                            "refused", "failed"}
  /\ outages \in 0..Outages

\* However imports overlap and fail, the ledger holds what its sources say: every
\* row of a source that is called complete stands for exactly one transaction, and
\* a transaction is pending only while no other source says that it is posted.
\* (finance.py:457-548)
SourcesAreHeld ==
  \A s \in snapshot.sources :
    /\ s.complete => \A i \in DOMAIN s.upload.export :
         LET row == s.upload.export[i] IN
         Cardinality({t \in snapshot.transactions :
                        IF row.provider # NoProviderId THEN t.provider = row.provider
                        ELSE t.id = <<s.upload.source, Identity(s.upload, i)>>}) = 1
    /\ \A t \in snapshot.transactions, i \in Accepted(s.upload) :
         LET row == s.upload.export[i] IN
         t.status = "pending" /\ row.provider = t.provider /\ row.provider # NoProviderId
           /\ row.status = "posted" => s.upload.source = t.id[1]
=============================================================================
