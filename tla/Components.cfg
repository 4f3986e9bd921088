SPECIFICATION Spec
CONSTANTS
    None = None
    Users = {"ann", "bob"}
    Orgs = {"org"}
    Projects = {"lib", "app"}
    Packages = {"core", "new"}
    Versions = {"v1"}
    Invitations = {1, 2}
    Callers = {1, 2, 3}
    HomeOf <- MCHomeOf
    OwnerOf <- MCOwnerOf
    VersionOf <- MCVersionOf
    Identities <- MCIdentities
    Workloads <- MCWorkloads
    Faulty = {1}
    FirstUsers <- MCFirstUsers
    FirstRoles <- MCFirstRoles
    FirstPackages <- MCFirstPackages
    Appointments <- MCAppointments
    MaxAge = 0
    MaxDownloads = 0
    MaxNow = 1
    MaxInterventions = 1
    Writers = {1, 2, 3}
    GraphReaders = {4}
    VersionIds = {"a1", "a2", "b1"}
    PackageIds = {"a", "b"}
    PackageOf <- MCPackageOf
    Owner <- MCOwner
    Public = {"a"}
    Nothing = None
    Requests <- MCPersisted
    Leftover <- MCLeftover
    PageLimit = 2
    MaxRemovals = 1
    Clients = {1, 2, 3}
    Nobody = None
    Asked <- MCRequests
    Runners = {1, 2, 3}
    NoAnswer = None
    Databases <- MCDatabases
    Spellings <- MCSpellings
    Requirements <- MCRequirements
    MaxVersions = 2
    Brands = {"acme", "Acme"}
    PortableBrands = {"acme"}
    Domains <- MCDomains
    CanonicalDomains <- MCCanonicalDomains
    Owners <- MCOwners
    PortableOwners <- MCPortableOwners
    MaxProviders = 3
    Drafts <- MCDrafts
    Others = {1, 2}
    MaxDependencies = 3
    MaxChanges = 2
    Calls = {1, 2, 3, 4}
    Viewers = {"eve"}
    Entities <- MCEntities
    Nil = None
    TypeOf <- MCTypeOf
    ParentOf <- MCParentOf
    ProjectOf <- MCProjectOf
    ShaOf <- MCShaOf
    NumberOf <- MCNumberOf
    Order <- MCOrder
    Questions <- MCQuestions
    FirstMembers <- MCFirstMembers
    FirstPublic = {"tool"}
    PageRows = 3
    ReferenceLimit = 1
    MaxDimensions = 2
    Openers = {1, 2}
    Private = {1}
    Directories = 2
    Starts <- MCStarts
    ToolModes = {"read", "write"}
INVARIANTS
    PromotionAnswersTrue
    PrimaryKept
    SealedExact
    GraphAnswersTrue
    LedgerTrue
    ResolutionTrue
    PlansAgree
    ClosureTrue
    LockPathTrue
    ReadsTrue
PROPERTIES
    MembershipSpec
    AuthorisedWhenCalm
    OnceOnlySpec
CHECK_DEADLOCK FALSE
