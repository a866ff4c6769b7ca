CONSTANTS
  all = all  some = some
  Filters = {all, some}
  MaxLinks = 2  MaxJobs = 3
SPECIFICATION Spec
INVARIANTS
  ShownWhereItIs
  TablesFollowTheFilter
  LoadingIsFollowed
