SPECIFICATION Spec
CONSTANTS
  Products = {basic, pro}
  NoProduct = noProduct
  Reporters = {r1}
  Edits = {"toggle", "active", "productID"}
INVARIANTS
  TypeOK
  NoLeakedObservation
  ObservesCurrentProduct
