SPECIFICATION RecordsSpec
CONSTANTS
  ann = ann
  carl = carl
  Nobody = Nobody
  Requests = {r1, r2, r3}
  Users <- MCUsers
  Roles <- MCRoles
  Enabled <- MCEnabled
  Perms <- MCPerms
  Grid <- MCGrid
  Assigned <- MCAssigned
  Edits <- MCEdits
  u1 = u1
  u2 = u2
  u3 = u3
  c1 = c1
  c2 = c2
  Uploads <- MCUploads
  Cards <- MCCards
  CardOf <- MCCardOf
  ByHand = ByHand
  None = None
  MaxSaves = 2
  enquiry = enquiry
  customer = customer
  Enquiries <- QEnquiries
  Customers <- QCustomers
  CustomerOf <- QCustomerOf
  Slots = {s1}
  MaxVersion = 3
  Every = Every
INVARIANTS ResolutionExact HeldDuringRequest ChainIsLinear OwnChangesShown
PROPERTIES ChangesAuthorised
