---------------------------- MODULE SequenceSig ----------------------------
(***************************************************************************)
(* SequenceBaseSig.recover: from the parts of a signature, the weight they *)
(* collect and the image hash of the configuration they belong to.  The    *)
(* parts fill the leaves of a Merkle tree; a subtree left empty is filled  *)
(* in from the witness.  Whoever writes the signature chooses every part   *)
(* and every word of the witness.                                          *)
(*                                                                         *)
(* Hashes are terms: equal only if they are hashes of equal things.  A     *)
(* definition marked "Mistake" is a broken variant of the one after it.    *)
(***************************************************************************)
EXTENDS Integers, FiniteSetsExt, SequencesExt

CONSTANTS
  Addresses,   \* the addresses that may be signers
  Weights,     \* the weights a part may claim
  Thresholds,  \* the thresholds a signature may claim
  Members,     \* the lists of members a configuration may have
  NoAddress,   \* address(0)
  MaxLeaves    \* bound: parts of a signature

Member == [address : Addresses \cup {NoAddress}, weight : Weights]

\* What the constants are (checked where they get their values).
MemberAssumption ==
  /\ Weights \subseteq Nat /\ Thresholds \subseteq Nat
  /\ NoAddress \notin Addresses
  /\ Members \subseteq Seq(Member) \ {<<>>}

-----------------------------------------------------------------------------
(* Words of 32 bytes. *)

Zero == <<"zero">>
Hash(a, b) == <<"hash", a, b>>

\* _joinAddrAndWeight: no hash, since a weight is a byte.
Leaf(m) ==
  IF m.address = NoAddress /\ m.weight = 0 THEN Zero
  ELSE <<"leaf", m.address, m.weight>>

\* How owners compute the tree of their configuration, level by level: a
\* node without a neighbour moves up.
Above(level) ==
  [k \in 1 .. (Len(level) + 1) \div 2 |->
    IF 2 * k > Len(level) THEN level[2 * k - 1]
    ELSE Hash(level[2 * k - 1], level[2 * k])]

Levels(members) ==
  LET level[n \in Nat] ==
        IF n = 0 THEN [i \in DOMAIN members |-> Leaf(members[i])]
        ELSE Above(level[n - 1])
  IN  [n \in 0 .. Len(members) |-> level[n]]

ImageHash(threshold, root) == [threshold |-> threshold, root |-> root]
ConfigImage(config) ==
  ImageHash(config.threshold, Levels(config.members)[Len(config.members)][1])

\* The words of a witness that may matter: hashes of the tree, or nothing.
WitnessWords(config) ==
  {Zero} \cup UNION {Range(level) : level \in Range(Levels(config.members))}

-----------------------------------------------------------------------------
VARIABLES
  config,     \* the configuration of the wallet
  signers,    \* the addresses that signed the subdigest
  threshold,  \* the threshold the signature claims
  leaves,     \* the number of parts it claims
  phase,      \* "parts", then "tree", then "done" or "reverted"
  workspace,  \* one word per part, then one per node of a level
  weight,     \* the weight collected
  index,      \* i of the loop over the parts, then j of that over a level
  nodes,      \* i of the loop over the levels: the size of the level
  honest,     \* history: the parts so far are those of config
  level       \* history: how many levels are complete

vars == <<config, signers, threshold, leaves, phase, workspace, weight,
          index, nodes, honest, level>>

claim == <<config, signers, threshold, leaves>>

Init ==
  /\ config \in [threshold : Thresholds, members : Members]
  /\ signers \in SUBSET Addresses
  /\ threshold \in Thresholds
  /\ leaves \in 0 .. MaxLeaves
  /\ phase = "parts"
  /\ workspace = [k \in 1 .. leaves |-> Zero]
  /\ weight = 0
  /\ index = 0
  /\ nodes = leaves
  /\ honest = (threshold = config.threshold /\ leaves = Len(config.members))
  /\ level = 0

-----------------------------------------------------------------------------
(* _recoverToWorkspace. *)

AtPart == phase = "parts" /\ index < leaves

NextPart(m, gained) ==
  /\ workspace' = [workspace EXCEPT ![index + 1] = Leaf(m)]
  /\ weight' = weight + gained
  /\ honest' = (honest /\ m = config.members[index + 1])
  /\ index' = index + 1
  /\ UNCHANGED <<claim, phase, nodes, level>>

\* FLAG_EMPTY_LEAF leaves the word of the workspace zero.
EmptyLeaf ==
  /\ AtPart
  /\ index' = index + 1
  /\ UNCHANGED <<claim, phase, workspace, weight, nodes, honest, level>>

\* Mistake: a part without a signature counts.
GainAlways(m, isSigned) == m.weight

\* FLAG_ADDRESS adds no weight, FLAG_SIGNATURE and FLAG_DYNAMIC_SIGNATURE do.
Gain(m, isSigned) == IF isSigned THEN m.weight ELSE 0

AddressLeaf(m) == AtPart /\ NextPart(m, Gain(m, FALSE))

\* The signer that recoverSigner yields did sign, and is not address(0).
SignatureLeaf(m) ==
  /\ AtPart
  /\ m.address \in signers
  /\ NextPart(m, Gain(m, TRUE))

\* The part names its signer, who must have signed, by key or by ERC-1271.
DynamicLeaf(m) ==
  /\ AtPart
  /\ IF m.address \in signers
     THEN NextPart(m, Gain(m, TRUE))
     ELSE /\ phase' = "reverted"
          /\ UNCHANGED <<claim, workspace, weight, index, nodes, honest, level>>

\* InvalidSignatureFlag, a malformed signature, or one past its end.
BadPart ==
  /\ AtPart
  /\ phase' = "reverted"
  /\ UNCHANGED <<claim, workspace, weight, index, nodes, honest, level>>

\* recover goes on to _computeMerkleRoot.
EndParts ==
  /\ phase = "parts"
  /\ index = leaves
  /\ phase' = "tree"
  /\ index' = 0
  /\ UNCHANGED <<claim, workspace, weight, nodes, honest, level>>

-----------------------------------------------------------------------------
(* _computeMerkleRoot. *)

NextNodes == (nodes + 1) \div 2
AtNode == phase = "tree" /\ nodes > 1 /\ index < NextNodes

\* The children of the node at index.
NodeA == workspace[2 * index + 1]
NodeB == workspace[2 * index + 2]
HasNeighbour == 2 * index + 1 < nodes

SetNode(word) ==
  /\ workspace' = [workspace EXCEPT ![index + 1] = word]
  /\ index' = index + 1
  /\ UNCHANGED <<claim, phase, weight, nodes, level>>

MoveUp == AtNode /\ ~ HasNeighbour /\ SetNode(NodeA) /\ UNCHANGED honest

\* Mistake: the word of the witness is taken for the right child.
JoinMisplaced(a, b, word) ==
  IF a = Zero THEN Hash(b, word) ELSE IF b = Zero THEN Hash(a, word) ELSE Hash(a, b)

\* A child left empty is read from the witness, the first one before the second.
Join(a, b, word) ==
  IF a = Zero THEN Hash(word, b) ELSE IF b = Zero THEN Hash(a, word) ELSE Hash(a, b)

BothEmpty ==
  /\ AtNode
  /\ HasNeighbour
  /\ NodeA = Zero /\ NodeB = Zero
  /\ SetNode(Zero)
  /\ UNCHANGED honest

JoinFull ==
  /\ AtNode
  /\ HasNeighbour
  /\ NodeA # Zero /\ NodeB # Zero
  /\ SetNode(Join(NodeA, NodeB, Zero))
  /\ UNCHANGED honest

\* An honest witness holds the hash of the subtree that was left out.
JoinWithWitness(word) ==
  LET missing == IF NodeA = Zero THEN 2 * index + 1 ELSE 2 * index + 2 IN
  /\ AtNode
  /\ HasNeighbour
  /\ (NodeA = Zero) # (NodeB = Zero)
  /\ SetNode(Join(NodeA, NodeB, word))
  /\ honest' = (honest /\ word = Levels(config.members)[level][missing])

NextLevel ==
  /\ phase = "tree"
  /\ nodes > 1
  /\ index = NextNodes
  /\ nodes' = NextNodes
  /\ index' = 0
  /\ level' = level + 1
  /\ UNCHANGED <<claim, phase, workspace, weight, honest>>

\* The root is workspace[0], which a signature without parts does not have.
EndTree ==
  /\ phase = "tree"
  /\ nodes <= 1
  /\ phase' = IF leaves = 0 THEN "reverted" ELSE "done"
  /\ UNCHANGED <<claim, workspace, weight, index, nodes, honest, level>>

Next ==
  \/ EmptyLeaf
  \/ \E m \in Member : AddressLeaf(m) \/ SignatureLeaf(m) \/ DynamicLeaf(m)
  \/ BadPart
  \/ EndParts
  \/ MoveUp
  \/ BothEmpty
  \/ JoinFull
  \/ AtNode /\ \E word \in WitnessWords(config) : JoinWithWitness(word)
  \/ NextLevel
  \/ EndTree

Spec == Init /\ [][Next]_vars

-----------------------------------------------------------------------------
(* Properties. *)

\* What recover returns as the image hash.
Recovered == ImageHash(threshold, workspace[1])

\* The weight of the members of config that signed.
SignedWeight ==
  LET first[n \in Nat] ==  \* ... of the first n members
        IF n = 0 THEN 0
        ELSE first[n - 1] + IF config.members[n].address \in signers
                            THEN config.members[n].weight ELSE 0
  IN  first[Len(config.members)]

\* A signature that recovers the wallet's image hash with enough weight was
\* made by members with that weight, each counted as often as config lists
\* it: no choice of parts, leaves and witness forges any
\* (_recoverToWorkspace and _computeMerkleRoot together).
NoForgedWeight ==
  phase = "done" /\ Recovered = ConfigImage(config) /\ weight >= threshold =>
    SignedWeight >= weight /\ SignedWeight >= config.threshold

\* Leaving members out never loses the configuration: whatever parts are
\* left empty, a witness with the missing subtrees recovers its image hash
\* (_computeMerkleRoot, odd levels and empty subtrees included).
MembersMayBeLeftOut ==
  phase = "done" /\ honest /\ workspace[1] # Zero => Recovered = ConfigImage(config)
=============================================================================
