SPECIFICATION PlatformSpec
CONSTANTS
  w1 = w1  w2 = w2  u1 = u1  u2 = u2
  Workers = {w1, w2}
  Items = {i1, i2, i3}
  Limit <- OneOfEach
  MaxQuantity = 2
  MinToPublish = 1
  Members = {u1, u2}
  UserOf <- OwnRequest
  Staff = {s1}
  CommentIds = {k1, k2}
  MaxShares = 2
  Artworks = {1, 2}
  Artists = {"x", "y"}
  ArtistOf <- EachTheirs
  ShopOrders = {"o1", "o2"}
  ItemsOf <- FirstOrBoth
  Views <- TwoViews
  Likes <- FirstLiked
  FavoritesOf <- SecondKept
  AgeInDays <- FirstOlder
  MaxComments = 1
  ListLimit = 1
  Price <- OwnNumber
  CategoriesOf <- OneGroup
  Edited = {2}
  CollectionsOf <- OneGroup
  TalentsOf <- OneTalent
  Heat <- FirstHot
  Online = {"x"}
  Groups = 2
  ProviderOf <- ChapaAndPayPal
  Prices = {1}
  Rates = {2, 3}
  RateTTL = 2
  QuoteTTL = 1
  MaxTime = 3
  MaxCharges = 1
  MaxReceipts = 2
  Accounts = {"a", "b"}
  Admins = {a1, a2}
  Given = {0, 20}
  Touched = {"minWithdrawalAmountPaypal", "maxWithdrawalAmountPaypal", "maxWithdrawalAmount",
             "orderExpirationHours", "minArtworksForPublish", "platformCommissionRate"}
  MaxGiven = 2
  Ages = {30, 200}
  Statuses = {"s1", "s2"}
  RowProviders = {"paypal", "chapa"}
  Ranks = {0, 1}
  NewRows <- SomeRows
  PageSize = 1
  MaxRows = 3
  MaxChanges = 1
INVARIANTS
  PlatformTypeOK
  ListsWithinLimits
  CountersFollowTheRows
  PublishedHasADate
  PublicWasLetThrough
  OnSaleIsFound
  ChargedAsQuoted
  NothingRemainsMeansAllPaid
  OfferedAsEntered
  CopiesAgree
  PagesMissOnlyWhatMoved
CHECK_DEADLOCK FALSE
