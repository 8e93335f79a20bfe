CONSTANTS
    ann = ann
    bob = bob
    n1 = n1
    n2 = n2
    Pubkey <- MCPubkey
    Nonce = {n1, n2}
    Contacts <- MCContacts
    StoredPolicies = {"mentions"}
    Deployments <- MCDeployments
    NonceTtl = 0
    MaxNonces = 1
    MaxRequests = 1
    MaxThrows = 1
    MaxNow = 1
    MaxDeploys = 1
SPECIFICATION Spec
INVARIANTS
    TypeOK
    AdmittedByTheBook
PROPERTIES
    ClaimHolds
SYMMETRY Codes
