----------------------------- MODULE MCTaxonomy -----------------------------
(* The two parts of the taxonomy service, which share no rows, checked in one *)
(* run: a behaviour is one of the category tree or one of the registry.       *)
EXTENDS CategoryTree, TLC

CONSTANTS Brands, Suppliers, Attributes, Options, Names, First, Existing, None,
          NRequests
VARIABLES data, version, log, req

\* A record is of one table, and its row is not an option.
ASSUME RegistryAssumption ==
    /\ Brands \cap Suppliers = {} /\ (Brands \cup Suppliers) \cap Attributes = {}
    /\ None \notin Options /\ NRequests \in Nat

Registers == INSTANCE Registry
registryVars == <<data, version, log, req>>

TaxonomyInit == Init /\ Registers!Init
TaxonomyNext ==
    \/ Registers!Init /\ Next /\ UNCHANGED registryVars
    \/ Init /\ Registers!Next /\ UNCHANGED vars
TaxonomySpec == TaxonomyInit /\ [][TaxonomyNext]_<<vars, registryVars>>

(* Registry: the audit entries, carried out in turn, give the records there are
   (store.Audit). *)
LogAndDataAgree == Registers!LogAndDataAgree

(* Registry: what an edit of an attribute logs as before is what the entry before
   it left (Taxonomy.UpdateAttribute). *)
AttributeEditsChain == Registers!AttributeEditsChain

(* Registry: an ETag is accepted only for the attribute and options that its
   client held (TouchAttribute, checkIfMatch). *)
ETagTells == Registers!ETagTells

\* No statement orders category ids, or slugs.
Symmetry == Permutations(Cats) \cup Permutations(Slugs)
=============================================================================
