---------------------------- MODULE AlephPallet ----------------------------
(***************************************************************************)
(* The runtime's side of committees: the aleph pallet (pallet/src/lib.rs)  *)
(* on one chain of blocks.  Root asks for a change of the validators; the  *)
(* pallet hands it to pallet_session when that plans the session, and      *)
(* follows pallet_session with its own authorities.                        *)
(*                                                                         *)
(* pallet_session is external: at the first block of each session it makes *)
(* the queued validators and keys current and asks its session manager for *)
(* the validators of the session after.  A list of validators is a set; a  *)
(* list of keys a function on it.                                          *)
(***************************************************************************)
EXTENDS Integers

CONSTANTS Accounts, Keys,
          SessionPeriod,      \* session_period of the genesis configuration
          GenesisValidators, GenesisKeys,
          Lists,              \* the lists change_validators is called with
          MaxBlock            \* bound: blocks of the chain

\* An Option is the set of the one value it has, or of none.
None == {}
Some(value) == {value}

SessionOf(num) == num \div SessionPeriod

ASSUME PalletAssumption ==
    /\ SessionPeriod \in Nat \ {0} /\ MaxBlock \in Nat
    /\ GenesisValidators \in SUBSET Accounts /\ Lists \subseteq SUBSET Accounts
    /\ GenesisKeys \in [Accounts -> Keys]

VARIABLES number,                    \* the height of the best block
          validators,                \* storage Validators
          sessionForChange,          \* storage SessionForValidatorsChange
          authorities,               \* storage Authorities
          currentIndex, queuedKeys,  \* pallet_session: CurrentIndex, QueuedKeys
          nextKeys,                  \* pallet_session: NextKeys
          request                    \* for the properties: the last call of
                                     \* change_validators, when and with what

palletVars == <<validators, sessionForChange, authorities>>
sessionVars == <<currentIndex, queuedKeys, nextKeys>>
vars == <<number, palletVars, sessionVars, request>>

KeyLists == UNION {[V -> Keys] : V \in SUBSET Accounts}

TypeOK ==
    /\ number \in 0..MaxBlock
    /\ validators \in {None} \cup {Some(V) : V \in SUBSET Accounts}
    /\ sessionForChange \in {None} \cup {Some(s) : s \in 0..SessionOf(MaxBlock)}
    /\ authorities \in KeyLists
    /\ currentIndex \in Nat
    /\ queuedKeys \in KeyLists
    /\ nextKeys \in [Accounts -> Keys]
    /\ request \in [list : SUBSET Accounts, for : Nat, at : Int]

\* The pallet's genesis asks for the first validators in session 0, and the
\* genesis of pallet_session, built after it, takes them for sessions 0 and 1.
Init ==
    /\ number = 0
    /\ validators = None /\ sessionForChange = None
    /\ currentIndex = 0
    /\ nextKeys = GenesisKeys
    /\ queuedKeys = [a \in GenesisValidators |-> GenesisKeys[a]]
    /\ authorities = queuedKeys
    /\ request = [list |-> GenesisValidators, for |-> 0, at |-> -2]
----------------------------------------------------------------------------
ChangeValidators(list, session) ==
    /\ number > 0
    /\ validators' = Some(list)
    /\ sessionForChange' = Some(session)
    /\ request' = [list |-> list, for |-> session, at |-> currentIndex]
    /\ UNCHANGED <<number, authorities, sessionVars>>

\* An account sets its key in pallet_session.
SetKeys(a, k) ==
    /\ number > 0
    /\ nextKeys' = [nextKeys EXCEPT ![a] = k]
    /\ UNCHANGED <<number, palletVars, currentIndex, queuedKeys, request>>

\* Mutant: only the very session.
TakesChangeExactly(session) == sessionForChange = Some(session)

\* new_session(session): is there a list to hand over, which is then cleared?
TakesChange(session) ==
    \E s \in sessionForChange : s =< session

\* Mutant: the authorities are the ones queued for the session after.
OnNewSessionQueued(current, queued) == authorities' = queued

\* Mutant: accounts for keys.
OnNewSessionAccounts(current, queued) == authorities' = [a \in DOMAIN current |-> a]

OnNewSession(current, queued) == authorities' = current

\* rotate_session, which plans the session after the one that starts.
Rotate ==
    LET planned == currentIndex + 2
        next == IF TakesChange(planned) THEN UNION validators ELSE DOMAIN queuedKeys
        queued == [a \in next |-> nextKeys[a]]
    IN /\ currentIndex' = currentIndex + 1
       /\ IF TakesChange(planned)
          THEN validators' = None /\ sessionForChange' = None
          ELSE UNCHANGED <<validators, sessionForChange>>
       /\ queuedKeys' = queued
       /\ OnNewSession(queuedKeys, queued)

\* should_end_session is asked at the start of every block.
NewBlock ==
    /\ number < MaxBlock
    /\ number' = number + 1
    /\ IF (number + 1) % SessionPeriod = 0 THEN Rotate
       ELSE UNCHANGED <<palletVars, currentIndex, queuedKeys>>
    /\ UNCHANGED <<nextKeys, request>>

Next ==
    \/ NewBlock
    \/ \E list \in Lists, s \in 0..SessionOf(MaxBlock) : ChangeValidators(list, s)
    \/ \E a \in Accounts, k \in Keys : SetKeys(a, k)

Spec == Init /\ [][Next]_vars
----------------------------------------------------------------------------
\* next_session_authorities, of the runtime API.
NextSessionAuthorities == queuedKeys

(* Properties *)

\* The finality gadget takes the committee of a session from
\* next_session_authorities at the last block of the session before.  Those are
\* the authorities the runtime then has throughout the session, though
\* validators and keys are changed up to that very block; and the sessions of
\* the gadget are the sessions of the runtime.
AuthoritiesAsAnnounced ==
    [][authorities' = IF SessionOf(number') = SessionOf(number)
                      THEN authorities ELSE NextSessionAuthorities]_vars

\* A change that no other replaces takes effect in the session it was asked
\* for, or two sessions after the call if that is later: until the session
\* before, it is waiting, and from then on its validators are the next ones.
ChangeOnTime ==
    LET due == IF request.for > request.at + 2 THEN request.for ELSE request.at + 2 IN
    IF currentIndex + 1 < due
    THEN validators = Some(request.list) /\ sessionForChange = Some(request.for)
    ELSE validators = None /\ sessionForChange = None
         /\ DOMAIN queuedKeys = request.list
=============================================================================
