SPECIFICATION Spec
CONSTANTS
  joe = joe
  ann = ann
  n1 = n1
  n2 = n2
  n3 = n3
  Usernames <- Two
  Providers <- Carriers
  Slugged <- OnlyOgero
  Slug <- SlugOf
  Bundles <- Shapes
  Forms <- SomeForms
  MaxEdits = 2
INVARIANTS
  TypeOK
  FirstWins
  EachLineShown
