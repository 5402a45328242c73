# PNW MVP v2: a verification project

PNW MVP v2 is a set of Leo programs for Aleo (names, licenses, employment
agreements, payroll, receipts, credentials, audits) with a TypeScript portal that
plans, encodes and sends their transactions. This directory holds TLA+ models of
the programs and of the portal, the TLC configurations that check them on small
instances, and theorems about them that TLAPS checks for every instance.
`PROJECT.json` lists components, runs, mutants, findings, hazards and theorems, and
maps every definition to source lines.

## 1. Inventory of the system

On Aleo a *transition* has a circuit part, run by the sender (its asserts must hold
before a transaction exists; it consumes and creates private records), and a `final`
block, run on chain over public mappings. The final blocks of all the programs one
transaction calls run in sequence and commit together or not at all. So **one
transaction is one atomic step**, and the interleaving that matters is between
transactions: the circuit inputs were read earlier, from records and from a chain
that has moved on. A record is consumed at most once, by its owner. A mapping entry
that was never set reads as the default of `get_or_use`. The portal is sequential
within one plan; plans of several participants, and one participant's plans started
again, run beside each other.

| Component | State | Operations | What makes it hard | Correct when |
|---|---|---|---|---|
| `employer_license_registry` | `is_verified` | `set_verified` (authority only), `assert_verified` | a license withdrawn between two steps of its holder | callers see the current value |
| `pnw_name_registry_v2` | owner, kind, suffix of a name; primary names, count of a wallet; price, sellback seller and refund; authorized registrar | 2 registrations, release, sellback request and fulfilment, primary name, admin, 2 guards | one name lives through several owners and kinds; portal-supplied counts are stale; the zero hash is both a name and "no name" | indexes are exact, but for the zero hash; a name has one owner and only the owner gives it up |
| `pnw_name_registrar_v5` | reverse resolver | 2 sales, sellback fulfilment, each over three other programs | several programs must accept or all revert; treasury solvency | no money is created, refunds are covered |
| `test_usdcx_stablecoin` (stub) | public balances, private `Token` records | public and private transfers | self-transfer, chained change | value is conserved |
| `employer_agreement_v4` | anchor, commitment, status, 3-bit resume mask; offer and agreement records | offer, accept, pause, terminate, approve, resume, supersede, 2 guards used here | three parties act concurrently while licenses and names change under them | lifecycle kept, copies usable, key confined, never locked in |
| `payroll_core_v2` | `paid_epoch` | pay one, pay two | four programs per transaction; a batch whose rows collide | a settlement is whole |
| `paystub_receipts` | anchors; paired receipt records | paystub, reversal, guard | public transitions beside the core | an anchor identifies one pair |
| `payroll_audit_log` | anchored events | `anchor_event`, guard | write-once under batches | an event is anchored once |
| `employer_profiles_v2`, `pnw_worker_profiles_v2` | anchors; profile records | create, update, guard | revisions race; anchors shared by profiles; licenses and suffixes change | a line of revisions does not fork; a height is the first mint's |
| `payroll_nfts_v2` | anchor, status, `superseded_by`; records | 4 mints, revoke, supersede | any caller, any id for a successor, ids presented again | record, status and successor agree |
| `credential_nft_v4` | anchor, status, issuer; two record copies | mint, revoke by issuer, revoke by owner, burn | issuer and owner race; names and agreement change meanwhile | issued under a running agreement by a party, revocable, copies and status agree |
| `audit_nft` | authorization status, expiry, revoked height; attestations | mint, revoke, expire, attest, guards | expiry by a caller-supplied epoch; anybody anchors and mints | mappings and records agree; nothing after the end |
| `pnw_router_v4` | none | forwards to the programs | callee sees the router as the caller | forwards faithfully |
| portal routers, endpoint tables, configuration | the plan built last | build a plan, execute it | types, tables, codecs and programs name the same things in four places | calls reach a transition that takes them |
| portal CLI adapter | position, attempts, trace, error | execute a plan with retries | a command that failed may have been broadcast | progress is reported truly, a step lands once, a run ends |
| portal audit workflow | consent state | derive hashes, plan the four phases | replanning between consents; u32 epochs | a consent binds its terms; what is consented to can be minted |
| portal payroll runs | fetched record, plan | fetch the best record, build and carry out a payroll | concurrent runs choose the same record; agreements pause and resume | no epoch is paid twice; a run never fails for want of money it was told it has |
| portal payroll reports | receipts, index, documents | normalize, index, build | order of arrival, voids, ties | index and totals are functions of the receipts |
| portal commitments | none (pure) | encodings, hashes, leaves, Merkle roots and proofs | absent values, odd levels, ties | a hash binds its document, a proof shows its leaf |
| portal onboarding and profile workflows | plans | 2 onboardings, 2 updates | steps of one plan meet other plans and need not fit each other | reported anchors are on chain, employers are current |
| portal mint requests and token ids | none | `createPayrollNftMintRequest`, `deriveTokenId` | it imports a function that does not exist | not modelled |
| scripts, CI, manifests | files | checks and runs | no state of the system | not modelled |

Interactions: the registrar calls license registry, stablecoin and name registry; the
agreement program calls license registry and name registry; the payroll core calls the
agreement program, the stablecoin, the receipts and the audit log; the layer 2 NFTs
call the agreement program, the audit log and the registries. There are no callbacks:
every call goes down, and every guard is an assertion that reverts the caller. The
portal's workflows build plans, its routers hand them to adapters, and an adapter sends
one transaction per step.

## 2. Modules

| Module | Models | Notes |
|---|---|---|
| `Addresses` | the shared address space | |
| `LicenseRegistry` | `employer_license_registry` | `AssertVerified` is the guard the others call |
| `NameOwnership` | abstract: what callers of `assert_is_owner` rely on | claimed when unclaimed, given up before it is claimed again |
| `NameRegistry` | `pnw_name_registry_v2` | implements `NameOwnership`, each name given up by its owner |
| `UsdcxToken` | public balances of the stablecoin | |
| `NameRegistrar` | `pnw_name_registrar_v5` | extends `NameRegistry`, `LicenseRegistry`, `UsdcxToken` |
| `AgreementLifecycle` | abstract: what payroll and credentials rely on | phases and consents |
| `EmployerAgreement` | `employer_agreement_v4` | extends `LicenseRegistry`, `NameOwnership`; implements `AgreementLifecycle` |
| `CredentialNft` | `credential_nft_v4` | extends `EmployerAgreement`, whose guards its mint calls |
| `WriteOnce` | the write-once mappings | keys of a batch are checked in order |
| `Payroll` | `payroll_core_v2`, `paystub_receipts`, `payroll_audit_log`, private `Token` records | reads the agreements through `AgreementLifecycle` |
| `Profiles` | both profile programs | extends `NameRegistry`, `LicenseRegistry` |
| `Onboarding` | `onboarding_workflow.ts`, `profile_update_workflow.ts` | several plans over `Profiles` |
| `AuditNft` | `audit_nft`, the events it reads | any caller, any arguments, any epoch |
| `AuditWorkflow` | `audit_workflow.ts`, `audit_scope_encoder.ts` | drives `AuditNft`, while others anchor and mint beside it |
| `PayrollNfts` | `payroll_nfts_v2` | any caller and arguments, over changing agreements and events |
| `PayrollReports` | `payroll/*.ts` | receipts, index and documents |
| `PayrollRuns` | `usdcx_fetcher.ts`, `payroll_workflow.ts` | several runs over one wallet's records, with what others pay, mint and anchor |
| `CliAdapter` | `aleo_cli_adapter.ts` (execution) | over a chain with write-once mappings |
| `PortalInterface` | step types, endpoint tables, codecs, configured programs | tables only |
| `PortalRouter` | both routers | plans and the calls made of them |
| `CanonicalEncoder`, `Merkle`, `MerkleTree` | `canonical_encoder.ts`, `merkle.ts` | operators |
| `Commitments` | what a report's holder commits and proves | composes the three |
| `MCDocuments`, `MCPortal` | instances that take modules without shared state one at a time | `PayrollReports`, `PayrollNfts`, `Commitments`; `AuditWorkflow`, `PortalRouter` |
| the other `MC...` | instances for TLC | |
| `EmployerAgreementProofs` | theorems | about agreements and the credentials minted on them |
| `NameRegistryProofs`, `RegistrarOnboardingProofs` | theorems | the sales, the profiles and the plans rest on the registry's invariant |
| `PayrollProofs` | theorems | about the core, the receipts and the token |
| `PortalProofs` | theorems | about the audit workflow, the command line adapter and the payroll runs |
| `PayrollReportsProofs` | theorems | about the index, the documents and the NFTs |
| `CommitmentsProofs` | theorems | about Merkle proofs and what the hashes bind |
| `FoldTheorems` | lemmas | sums over finite sets and folds over sequences, for money and reports |

The models compose along the abstract specifications: `EmployerAgreement` does not
contain the whole name registry but `NameOwnership`, which `NameRegistry` is shown to
implement; `Payroll` does not contain the agreement program but `AgreementLifecycle`,
which `EmployerAgreement` is shown to implement. Both refinements are checked by TLC
and proved. `CredentialNft` contains `EmployerAgreement` itself, and `Onboarding` the
name registry itself, because their hazards are in the interplay.

### Correspondence to the code

- A mapping is a total function whose initial value is the default the code reads for
  an absent entry, or, where only set entries matter, a function over those. Heights in
  write-once mappings only say "set", except in `Profiles`, where the first height is
  the point: blocks are counted by the profiles minted.
- Records are sets: all offers and profiles ever made with the subset spent (`offers`,
  `profiles`, `spent`), the final agreements (`finals`), the NFT records not consumed
  (`nfts`), the unspent tokens (`tokens`, made distinct by the transfer that made them),
  and the receipts as worker/employer pairs.
- A transition is one action with all the calls it makes. `pause_agreement`,
  `terminate_agreement` and `approve_resume` take the role as a parameter and stand for
  the three role-specific transitions each; `mint_nft` stands for four mints,
  `create_profile` and `update_profile` for those of both profile programs.
  `supersede_agreement` and `resume_agreement` ask for no role, as in the code.
- `self.caller` and `self.signer` are the parameters `caller` and `signer`. In
  `NameRegistrar` the registrar is the caller of the registry. A program that forwards
  (`pnw_router_v4`) is one more caller.
- In the portal, an awaited call is a step of its own: `CliAdapter` submits, then
  succeeds or fails; `PayrollRuns` fetches, then the node responds, then the body is
  read. What is computed between two awaits is one step.
- A step of a plan, or a value it carries, is its name. A hash is the tuple it is the
  hash of.
- The loops of `merkle.ts` are recursive functions over the levels of a tree, defined
  for as many levels as there are leaves: from the level of the root on they stay. The
  sort of `encodeItems` puts each item at its rank (`Place`), which is the same list
  for the strict order the code compares by.
- The leaves that `MerkleTree` proves are lines hashed in `HASH_DOMAINS.LEAF` of `hash.ts`.
  `merkle.ts` takes hashes of any origin and nothing in `src/` calls it, so that this is an
  assumption on its callers (`lineHash` is marked external): without a domain of its own, a
  line could be the parent of two others, and `ProofsStayTrue` would be false.
- Definitions named `X_Y` marked *Fault* are not part of the model: each is a plausible
  bug in `X` that some property must notice.

### Assumptions and abstractions

- Hashes do not collide: a parties commitment *is* the triple it commits to, and a hash
  of the portal the tuple it is made of. What is proved of hashes is what their inputs
  leave no room for.
- A document has the fields of its type (`DocsAssumption`), and an inputs set names a
  receipt once (`InputsAssumption`): `paystub_receipts` writes an anchor once.
- A wallet can present a `parties_key` exactly when a record it created or owned carries
  it (`HoldsKey`), and an employer uses one key for one worker (`MayUseKey`). The latter
  is a duty of the portal and not checked by the program; `KeyStaysWithParties` depends
  on it.
- The terms of a job, the facts in a profile, the license hash, plaintext names and the
  scope index of credentials are left out: the programs check their form, store them and
  compare none of them later.
- Gross amount, tax and fee are compared in the circuit before the transaction exists;
  only the net amount moves money. `Payroll` leaves them out; `PayrollRuns`, where they may
  be why a plan fails, has them in `Payable`.
- An authorization's policy document is left out of its record, and so are the parties and
  the purpose of a request, which are the same in all hashes derived from one.
- What an onboarding step of a plan says, other than the name and the anchor the builder
  reports, is chosen when the step is carried out: nothing reads it before. The name
  of the `onboarding` run is not the zero hash; its theorems allow that one too.
- The deployed stablecoin is not in the repository. `Payroll` takes the program the core
  calls as the constant `StubToken`: the stub as written, or the program as the core uses
  it, which pays the address it is called with.
- The treasury's other income and spending, and ADMIN's direct registrations, are outside
  `NameRegistrar` (the latter are in `NameRegistry`). Amounts do not overflow u128: Leo
  arithmetic reverts.
- Layer 1 plans are given to an executor that `src/` leaves to an adapter to be written;
  `Onboarding`, `AuditWorkflow` and `PayrollRuns` take it to send the steps in order and
  to stop at the first that fails, as the Layer 2 adapter does.

### Fairness

Nothing obliges a party to act, so the programs' specifications assume no fairness, and
what a party can always still do is stated with `ENABLED` (`NobodyIsLockedIn`).
One specification has a scheduler behind it: `CliAdapter!AdapterFairSpec` assumes `WF` of
the adapter's own steps (`OwnStep`), which the event loop takes and of which a timer ends
each sleep. Nothing is assumed of the commands: `CliCommandExecutor.run` has no timeout and
`executePlan` awaits it, so that a command that hangs keeps its run for ever. Nothing is
assumed of the chain either: a broadcast transaction need not land. `RunsEnd` is therefore
conditional: a run ends if none of its commands hangs for ever, that is, if the retry loop
itself ends. Of a fetch nothing is stated: while its timer runs it is aborted, which would
restate the fairness of the timer, and once the timer is cleared a body may stall for ever.

## 3. Runs

| Run | Bounds | Shows |
|---|---|---|
| `agreement` | employer, worker and DAO wallet (the DAO is the license authority, and no employer), 2 names, 1 agreement, 1 key, 1 credential | approvals never outlive a pause, closed stays closed, records and mappings agree, the key stays with the parties, both parties can always close, and the program implements `AgreementLifecycle`, whatever happens to licenses and names in between; a credential is issued under a running agreement by a party of it, agrees with its copies and can be revoked by its issuer |
| `registry` | 2 wallets, 4 names (one more than the limit; one is the zero hash), the registrar and ADMIN as callers, invalid suffixes among the inputs | owner, kind, suffix, worker index and employer count are exact; implements `NameOwnership`, and a name is given up by its owner |
| `registrar` | treasury and 2 customers, 3 names (one is the zero hash, bought as a worker name only), price 4, opening balance 8, no license for the treasury | money is conserved; the treasury covers every refund promised or still possible; at most one name of each kind besides the zero hash |
| `payroll` | 2 wallets with records of 2 and 1, 2 agreements, 1 epoch, 2 anchors, 2 events, 2 transfers | anchors identify receipts, paid epochs have receipts, value is conserved, a settlement is whole and pays the workers |
| `onboarding` | 2 wallets, 3 plans whose steps may be for different wallets and suffixes, 1 name, 2 valid suffixes, 2 anchors, 2 revisions, 3 profiles | lines of revisions do not fork, indexed heights are the first mints', the anchor a plan reports is on chain, and no employer profile is minted on a withdrawn license or a changed suffix |
| `runs` | 3 runs over shared records, agreements, anchors and events, two of them started again; one thing paid, minted or anchored beside them | a run that is told of too little money is told so rightly, one that fails has a cause other than money, no agreement is paid twice or from a spent record |
| `cli` | 2 plans over write-once steps, up to 2 attempts each, runs started again | errors locate the progress, reports are complete, no step is sent again once acknowledged or written twice, a run ends if no command hangs |
| `portal` | one part at a time. Audit: 1 request, planned up to twice, 1 authorization and attestation, epochs up to the u32 bound, zero versions, a log of 3 events in which anybody anchors, mints with any anchored hashes. Routers: every single step, every plan method, every plan of up to 2 Layer 2 steps | a consent cannot be turned to other terms, what the portal plans can be minted, records match mappings, nothing is attested or renewed after its end; steps are addressed to configured programs, and those that miss their transition or its inputs are the ones listed below |
| `documents` | one part at a time. Reports: 3 of 6 receipts in every order (ties, a void, an invalid amount), pairs of documents. NFTs: 2 callers, 3 ids (one is the id of no successor), 1 agreement, periods and versions with zeros. Commitments: pairs of documents with up to two values changed in each, sets of up to 3 receipts in every order, trees of up to 6 lines | the index is a function of the receipts, totals count all that was handed over; record, status and successor of an NFT agree; hashes and roots bind documents but for the period type, input hashes are of sets, kept proofs stay true |
| `promise_kept` | 2 wallets, 2 names; expected to find a violation | see below |
| `both_consented` | the audit of `portal`; expected to find a violation | see below |
| `sections_on_chain` | one document; expected to find a violation | see below |

Why the bounds are enough: no handler reads more than two agreements, names, wallets or
rows at once, a name's second life needs two owners, the employer limit needs four names,
a batch needs two of everything its rows may share, and a wallet that cannot afford the
second row needs a record of one. A race between plans needs two of them and something
made before; three runs of each portal workflow allow that. A mint looks up three events,
and what a consent is turned against is one other set of terms. `MCDocuments` and `MCPortal`
take one part at a time because their parts share no variable: states in which several have
moved add nothing. Six leaves give three levels of a tree with odd ends on each. Two
attempts give a first, a last and a retry. Symmetry is used for identifiers that are only
compared (names, keys, agreements, anchors, events, customers, plans), never for the zero
hash, the treasury, the DAO or the payer, and no liveness property is checked under it.
Deadlock is not checked where programs may rest and bounded ids,
transfers or plans run out.

A run's property may be a conjunction of named parts that answer one question, such as
`ReportsAreTrue == ErrorLocatesProgress /\ ReportIsComplete`; the parts are defined and
explained beside it. Each property of each passing run has a mutant, and each part that can
fail alone one of its own: a fault injected in a mapped definition that TLC must detect
under the same configuration. Type invariants are part of the `agreement` run; elsewhere
they are stated where a proof uses them.

### Disagreements met while modelling

Three are shown by runs.

- `promise_kept`: `request_empl_sellback` overwrites the seller and the amount of an earlier
  sellback of the same name, registered again meanwhile, so that the first seller's promise
  is lost; the program's comment says "Store sellback info for fulfillment".
- `both_consented`: the mint of an authorization says "Verify employer consented to this
  exact scope + duration" (`audit_nft:134`, and the worker at 137), and so does
  `audit_nft.aleo/audit_repo.md:23`. It looks three hashes up in a log that anybody writes and compares
  them with nothing: one event that is no consent stands for all three. What does hold is
  `ConsentsBindTerms`: a consent that a party anchored itself cannot be shown as the consent
  to other terms or in the other role.
- `sections_on_chain`: `docs/ARCHITECTURE.md:48` promises "Merkle proofs over report
  sections/line-items (against on-chain roots)". The root a document is minted with is built
  by `canonical_encoder.ts:579`, which hashes pairs without a domain; `merkle.ts:17` proves
  with pairs hashed in `PNW::MERKLE_NODE`. No section of a document verifies.

The models show further places where a text of the repository and its code part, or where
the code accepts more than one would expect. Each is modelled as the code has it:

- `pnw_name_registry_v2:68`: "Worker can only have one name". `name_hash` may be `0field`,
  which is also what the index reads for a wallet without a name: its owner takes another
  worker name, by the registrar too, and can never release the zero one. `WorkerIndexExact`
  and `OneNameOfEachKind` are stated of the other names.
- `pnw_name_registrar_v5` (header): "Each wallet gets exactly ONE .pnw name". Each kind's
  index is checked alone; a licensed wallet may hold one of each (`OneNameOfEachKind` is
  what holds).
- `pnw_name_registry_v2:119`: "Set as primary if this is the first name". A sellback
  leaves the primary in place, so the next first name is not set.
- `credential_nft_v4:8-47`: the minter is the employer with an active agreement with the
  target worker. The mint asks for the key of a running agreement, and for the current owners
  of its two names. Any of the three parties that has come to own the employer name mints,
  and whoever owns the worker name by then is the target (`IssuedUnderAgreement` is what
  holds).
- `docs/ARCHITECTURE.md:292` and the README of `payroll_core_v2`: double pay is prevented
  and there is no other settlement path. Receipts can be minted directly, and the
  sequential payment `docs/NOTES.md` describes never writes `paid_epoch`.
- README of `payroll_core_v2`: the worker owns the payment. The stub's `transfer_private`
  gives both outputs to the sender (`StubToken = TRUE`).
- `audit_workflow.ts:173`: the portal does not look at `schema_v` and `policy_v`, which the
  mint wants nonzero; `PlannedRequestsMint` is stated of requests whose versions are.
- The audit log writes an event once. When somebody else has anchored the hash of a consent
  first, the party's own anchoring reverts, and the log holds the hash without the consent.
- `audit_repo.md:25`: either consenting party can revoke an authorization. The revocation
  consumes the record, which its minter owns; the parties have no transition.
- `audit_nft:212`: an attestation is compared with the epoch its sender read, or any other;
  one with an early epoch is accepted after the expiry, until somebody marks it.
- `aleo_cli_adapter.ts:306`: the command of `mint_authorization_nft` has eight of its
  twelve inputs; `audit_workflow.ts:250` plans the mint as a kind that no table maps; the
  adapters' agreement steps name transitions the agreement program does not have, or lack the
  names; `register_employer_name` lacks its count, `fulfill_empl_sellback` seller and refund,
  and both payroll steps the Merkle proofs of their transfers (`layer1_router.ts:65`, 75,
  321). `OnlyKnownMisfits` says that these, and the getters, are all that is out of step. The
  tables also keep fixed program names that `testnet.manifest.json` no longer lists.
- `aleo_cli_adapter.ts:604`: in execute mode an argument that does not encode is reported
  with category `execution`. A command is awaited without a timeout (523).
- `usdcx_fetcher.ts:87`: the timer is cleared before the body is read, so a node that
  stalls inside its response keeps a fetch waiting. "Insufficient" is told of the records
  that could be read, one by one: one that is still encrypted, or two together, may suffice
  (`InsufficientIsTrue`).
- `onboarding_workflow.ts:29`: the steps of an onboarding are not compared: the license,
  the name and the profile may be of different wallets, and the name reported need not be
  the profile's.
- `indexer.ts:34` and `summary_builder.ts:36`: totals leave out the marker of a void, with
  its own amounts, and keep the receipt it voids.
- `summary_builder.ts:20` and `mint_payroll_nfts.ts:42` count on `buildCommitments`, which
  `canonical_encoder.ts` does not have: no mint request and no token id is computed, and
  summaries of the same receipts in another order are different documents.
- `canonical_encoder.ts:85`: the `period_type` of a summary is written neither into its
  encoding (392) nor into its leaves (522), so that two summaries that differ in nothing else
  have one hash and one root (`DocumentsAreBound` is of all the other values).
- `payroll_nfts_v2:288`: any id is taken for a successor, `[0u8; 32]` included, which reads
  as none. The mint asks for the document's inputs hash to be anchored as an event, which
  nothing in a payroll does.

## 4. Proofs

All theorems are `Spec => ...` for arbitrary constants satisfying the named assumptions
(`ZeroAssumption`, `AuthorityAssumption`, `DaoAssumption`, `CredentialAssumption`,
`RegistryAssumption`, `RegistrarAssumption`, `PayrollAssumption`, `ProfilesAssumption`,
`OnboardingAssumption`, `AuditNftAssumption`, `AuditAssumption`, `CliAssumption`,
`RunsAssumption`, `ReportsAssumption`, `MerkleAssumption`, `CommitmentsAssumption`,
`DocsAssumption`, `InputsAssumption`, `NftsAssumption`). Where money is summed, the wallets
and the records a run starts from are finitely many, as they are on any chain; the ids of
these records are numbers up to their number, so that the model can number the next one.

**EmployerAgreementProofs.** The inductive invariant `IInv` adds to the checked invariants
that a status other than absent implies an anchor (`StatusAnchored`, without which an offer
could be made over a live id) and that a key belongs to one pair of wallets
(`KeyOfOnePair`, from which `KeyStaysWithParties` follows together with the shape of
`finals`). `LifecycleShape` reduces the ten later transitions to two shapes: a status change
that clears the mask, and an approval while paused. Proved: type correctness,
`ContractFormed`, `KeyStaysWithParties`, that approvals live only while paused
(`ApprovalsOnlyWhilePaused`), that every record reproduces its commitment
(`CopiesStayUsable`), that what is closed stays closed (`ClosedForGood`), and that every
step maps to a step or a stutter of `AgreementLifecycle`.

In the same module, `AgreementsUndisturbed` shows that credentials take nothing from
the agreements they are minted on: `CredentialSpec => Spec`, so the theorems above hold of
the composition that the run checks. `CInv` adds to `IInv` the types and the two invariants
of the credentials. `CopiesMatchStatus` is inductive because a copy names an issuer and an
unminted credential has none; `IssuedUnderAgreement`, of every mint, needs the agreements'
part: the names and the key presented are those of the one accepted offer of the agreement
(`AuthorizedIsParty`), and only its parties have that key (`KeyOfTheParties`).

**NameRegistryProofs.** `IInv` is the conjunction of the checked invariants: the count is
only exact because kind and owner agree, and the worker index is only exact because an
employer name cannot be released and a worker name cannot be sold. The count uses the
cardinality theorems. Nothing is assumed of the zero hash, which may be a name or not. Proved:
type correctness, `NameRecordsAgree`, `WorkerIndexExact`, `EmployerCountExact`, that a refund
has a seller (`RefundHasSeller`), the implementation of `NameOwnership`, and that a name that
loses its owner does so by a transition of that owner; the latter is a fact about every step of
the registry, which the abstract specification, without callers, cannot say.

**RegistrarOnboardingProofs.** The sales are steps of the registry at a price of their own. The
registrar always presents the count zero, so that a wallet never counts more than one
employer name (`OneCounted`); with the registry's exact counts and worker index this is
`OneNameOfEachKind`. `MInv` adds the money: balances are natural numbers, their sum stays
(`MoneyConserved`), and the treasury covers what it owes (`TreasuryCoversRefunds`). The
latter is inductive only with the registry's types and `RefundHasSeller`: a price paid enters
the treasury and the debt at once, a resale replaces the debt of the old price by that of
the new one, and a fulfilled refund leaves both. A refund, rounded down, is at most the price
(`RefundBounds`).

In the same module, of the profiles and the plans over them, `OInv` is the registry's
invariant, what the profiles of a line have to do with each other, and what each plan knows
at its step. Two facts carry the profiles: every height counts the profiles minted so far,
hence identifies one (`HeightsCount`), and the first mint under an anchor is the one indexed
(`FirstMint`). A plan is described by what remains of it: a tail of the plan of its
participant, whose finished profile step has minted what it reports. Proved: that the plans are steps of the
registry (`RegistryUndisturbed`), `ProfilesIntact`, `ReportedAnchorsAreOnChain` and
`EmployersAreCurrent`; the last needs `NameRecordsAgree`, for the profile program looks at
the suffix of a name and not at its kind.

**FoldTheorems.** `MapThenSumSet` folds over a set in an order of its own choosing, by a
recursive function. Induction over the subsets of a finite set is stated over a set of
subsets (`SubsetInduction`), not over a predicate, which keeps it first order and within the
provers' reach; it follows from the well-founded order of the finite subsets. With it: the
fold of the library exists and has one value whatever it picks (`FoldsExist`, `RunsAgree`,
`SumRemove`), and what a sum becomes when an element is added, removed, renamed or changed
(`SumAdd`, `SumChange`, `SumRenamed`, `SumUnion`, ...). The proofs of the registrar, the
core and the payroll runs cite only the latter. `FoldLeft` is the same fold over the indices
of a sequence, taken from the largest: `FoldWalks` gives the values it goes through, one per
prefix, and `UpTo` is induction over the prefixes.

**PayrollProofs.** `MintKeeps` is stated for a run of any number of rows and serves single,
batched and direct minting; `BatchAdds` says that a batch which passes the write-once check
adds as many keys as it has rows, and is used for anchors, events and epochs. Proved, for
both token programs: type correctness (the change of a chained transfer stays a natural
number), `AnchorsIdentifyReceipts`, `PaidEpochsEvidenced`, with them `ReceiptsAreEvidence`,
and `SettlementIsWhole`: only the two transitions of the core move money and mint receipts
at once, and `Settle` treats every row alike. `VInv` adds that no record
carries a transfer yet to come (`RecordsKnown`), so that the outputs of a transfer are new and no two
records of equal owner and amount are counted as one. With it `OneTransfer` says what a
transfer does to every wallet's holding, and a batch is two of them, the second on the change
of the first: `ValueConserved` for both token programs, and `WorkersArePaid` for the deployed
one. The latter is false of the stub, and `StubPaysNobody` says what is true of it instead.

**PortalProofs.** In the audit, nothing is known of an anchored hash, which anybody may have
anchored, nor of the arguments of a mint. What is known is of the consents that parties gave
(`ConsentsToTerms`), and `ConsentBinds` says that equal hashes are of one role and of the same
terms: `ConsentsBindTerms`, of every mint by anybody. `PlannedRequestsMint` follows from what
the portal checked (`RequestsValid`). `RecordsMatchMappings` is inductive with the types of
`WInv`; `EndedForGood` follows from the types and the guards, whatever epochs are presented.

Of the adapter, `AInv` relates the log of what was sent and acknowledged to where
`executePlan` is: nothing was sent ahead of the current step and attempt (`SentSoFar`), and
an acknowledgement moves the adapter on (`AckedBefore`), so that a further attempt cannot
follow one. `ReportsAreTrue` and `StepsLandOnce` follow, for any plan and retry policy.

Of the payroll runs, `RInv` is the conjunction of what two runs can do to each other. What
a run saw may have been spent by another since, so that nothing about the wallet holds of its
choice; what holds is that the choice covers its own rows (`ChosenCovers`) and that records
made later are new (`NextIsNew`), hence a record that is gone stays gone. `PlanLeft` says what
remains of a plan that is being executed, and `PaymentsSettle` that a run has paid nothing
before its settlement. What a settlement demands is all that the core and the programs under
it do (`Settles`); with `ChosenCovers`, what can be missing is one of the four things that
`Cause` lists, and money is none of them: `StopsHaveCauses`. `MoneyKept` ties the unspent records and the payments to the opening
records; with `PaidOnce` this is `PaidOnceFromRecords`. `totalNetAmount` folds over the rows
in their order and the ledger sums over payments, and `RowsPaid` shows the two equal, which
uses that rows that settle write different entries.

**PayrollReportsProofs.** The sort, the index, the summaries and the selection of events are
loops, hence folds. For each, a `...Steps` lemma lists the values the loop goes through and
an `...Is` lemma says what they have in common: a sorted prefix has the events of the prefix
of the batch, in the order of the chain (`InsertedKeepsOrder`, `SortedIs`); in that order an
event extends the bucket of its key or opens the last one, so that keys ascend
(`BucketedKeeps`, `IndexIs`); and totals and window are those of the prefix (`SummedIs`). That
the batch names no receipt twice is needed throughout, as is that `Before` is a strict total
order of receipts, which rests on the tie-break by anchor (`BeforeOrders`). `PipelineInv`
says of the state that the index is that of the batch and that every document was built from
receipts each handed over once; the latter because buckets of different keys share no event
(`EventsOfIs`). `IndexIsCanonical` and `TotalsAreExact` follow.
Assumed of the receipts is their shape and that an anchor identifies one (`ReportsAssumption`),
which `AnchorsIdentifyReceipts` of the core says of the chain.
`NftsMatchStatus`, of callers that present anything, needs that records are held of active ids
only, one of each (`NftsInv`).

**CommitmentsProofs.** The levels of a tree get shorter until one node is left, at a depth
that exists for every list (`DepthExists`); from there on every level is the root
(`Settled`). A step of a proof, taken at a node, gives its parent and takes no other hash
there (`StepReaches`), so that the climb from the leaf ends at the root and from any other
leaf elsewhere (`ProofShows`). The invariant `IInv` is small, for a proof depends only on
the list it was made over: a kept proof is the one of its list, which is no longer than
the list of today (`TreeInv`).
A longer list is no less deep (`LongerLevels`, `LongerDeeper`). So a proof that verifies
under a later root is followed from that root down: each value of the climb is a node of
the later tree, and the one at the proof's own position if the depths agree
(`ProofShowsLater`). If they do not, the climb started at an inner node, which no line hashes
to (`ParentsDiffer`, from the domains of `hash.ts`): `ProofsStayTrue`.

An encoding is a concatenation of parts, and equal encodings have equal parts when the
parts have the lengths that the tags say (`AlikeConcat`); `PaystubBinds` and
`SummaryBinds` go through a document in this way, `PaystubLeavesBind` and
`SummaryLeavesBind` through its leaves, and two kinds of documents differ in their first
value: `DocumentsAreBound`, of all values but the period type, which no part holds
(`Bound`). The root of three leaves is a hash of all of them (`RootOfThree`).

Of inputs sets, the rank of an item is its place and no two items have one rank
(`RankDiffers`, `PlaceIsRank`), hence the sorted list is a function of the set
(`SortedOfSet`) and the set is read off the list (`ItemsEncoded`): `InputsHashIsOfTheSet`, in
both directions.

Only model-checked are `ENABLED` (`NobodyIsLockedIn`) and liveness (`RunsEnd`), which are
outside what TLAPS proves, and `OnlyKnownMisfits`, which compares finite tables: the run goes
through all of them, and a proof could say no more. Every other property of the passing runs
is a theorem.

## 5. Plan

What is modelled is checked, and proved where the prover reaches. What would come next:

1. **Model.** The deployed stablecoin, once its source is in the repository, in the place of
   `StubToken`.
2. **Model.** The executor of Layer 1 plans, once there is one.

### Not modelled

- `pnw_router_v4`: it keeps no state and forwards every call. The programs it calls see
  its address as `self.caller`, which is an element of `Wallet` like any other.
- `mint_payroll_nfts.ts` and `token_id.ts`: the former imports `buildCommitments`, which does
  not exist, so that no mint request and no token id is ever computed.
- Superseded program versions. The endpoint tables of the portal still address some of
  them; `PortalRouter` reads off them what they take, and nothing else of them is modelled.
- `config/env.ts`, the type declarations and, save its domains, `hash.ts`: reading the
  environment, names of types, and hashing, of which collision freedom is assumed.
- Scripts and CI: files, processes and environment checks around the adapters.
